---- MODULE Spec2Model ----
(***************************************************************************)
(* Model of the SkillTrainerBot backend: the action de-duplicator          *)
(* (src/backend/main.py dedup_actions), the progress store                 *)
(* (src/backend/state.py StateStore over src/backend/database.py           *)
(* ProgressDB) and the /ingest dialogue engine (src/backend/main.py).      *)
(*                                                                         *)
(* Conventions: message texts are ASCII stand-ins for the Russian texts of *)
(* the source; a keyboard is the sequence of the callback data of its      *)
(* buttons (every row of every keyboard in the source has one button), and *)
(* <<>> stands for both None and an empty inline list, which the code      *)
(* treats alike (bool(keyboard_raw) is False).                             *)
(***************************************************************************)
EXTENDS Integers, Sequences, FiniteSets, TLC

VARIABLES
    input,      \* dedup_actions: the argument list
    output,     \* dedup_actions: the returned list
    store,      \* StateStore._store: chat_id -> UserProgress (the cache)
    db,         \* user_progress table: chat_id -> row
    lock,       \* StateStore._lock: its holder, or NoTask
    running,    \* the task the event loop is executing, or NoTask
    task,       \* per request task: position, event, locals, response
    aiEnabled,  \* AIClient.enabled(): an OpenRouter key is configured
    nEvents,    \* number of events received so far
    last,       \* the latest completed handling (event, outcome, progress)
    reminders,  \* the detached schedule_reminder tasks, counted by position
    push_url,   \* settings.frontend_push_url, as schedule_reminder finds it
    storage,    \* the database file: "up", or "failing" when a write may raise
    arg,        \* a function called on its own: its argument
    ret,        \* a function called on its own: what it returned
    pending_chats,  \* front end: chats with a text or voice request in flight
    handler,    \* front end: per handler task its position, update and outcome
    seen,       \* UpdateDeduplicator._seen
    queue,      \* UpdateDeduplicator._queue, oldest first
    dispatched  \* the update ids the webhook handed to the dispatcher, in order

dedupVars == <<input, output>>
reminderVars == <<reminders, push_url>>
engineVars == <<store, db, lock, running, task, aiEnabled, nEvents, last,
                reminders, push_url, storage>>
callVars == <<arg, ret>>
gateVars == <<pending_chats, handler>>
webhookVars == <<seen, queue, dispatched>>
frontVars == <<pending_chats, handler, seen, queue, dispatched>>
vars == <<input, output, store, db, lock, running, task, aiEnabled, nEvents, last,
          reminders, push_url, storage, arg, ret,
         pending_chats, handler, seen, queue, dispatched>>

\* ------------------------------------------------------------------------
\* Bounds
\* ------------------------------------------------------------------------
MaxActs == 3        \* longest list handed to dedup_actions
MaxEvents == 2      \* events received in one behaviour
MaxDiagEvents == 4  \* events of one diagnostic run

\* ------------------------------------------------------------------------
\* Output actions
\* ------------------------------------------------------------------------
NoKeyboard == <<>>

send_message_action(chat_id, text, keyboard) ==
    [type |-> "send_message", chat_id |-> chat_id, text |-> text,
     parse_mode |-> "HTML", keyboard |-> keyboard]

\* ------------------------------------------------------------------------
\* dedup_actions
\* ------------------------------------------------------------------------
\* key of a send_message action in best_by_text: (text, parse_mode)
MergeKey(act) ==
    <<act.text, IF act.parse_mode = "" THEN "HTML" ELSE act.parse_mode>>

\* placeholder key of any other action: ("__other__", str(len(best_by_text)))
OtherKey(best) == <<"__other__", ToString(Len(best))>>

HasKeyboard(act) == act.keyboard # NoKeyboard

\* position of key in the insertion-ordered dict, 0 when absent
KeyIndex(best, key) ==
    IF \E i \in 1..Len(best) : best[i].key = key
    THEN CHOOSE i \in 1..Len(best) : best[i].key = key
    ELSE 0

\* mutant of ShouldReplace: a later keyboard always replaces the kept action
ShouldReplace_LastWins(existing_has_keyboard, has_keyboard) ==
    has_keyboard

\* the test that lets act take the slot of an existing entry
ShouldReplace(existing_has_keyboard, has_keyboard) ==
    has_keyboard /\ ~existing_has_keyboard

\* one iteration of the for loop over actions
DedupStep(best, act) ==
    IF act.type # "send_message"
    THEN LET key == OtherKey(best) IN
         IF KeyIndex(best, key) = 0
         THEN Append(best, [key |-> key, act |-> act, has_keyboard |-> FALSE])
         ELSE best
    ELSE LET key == MergeKey(act)
             idx == KeyIndex(best, key)
             entry == [key |-> key, act |-> act, has_keyboard |-> HasKeyboard(act)]
         IN  IF idx = 0
             THEN Append(best, entry)
             ELSE IF ShouldReplace(best[idx].has_keyboard, HasKeyboard(act))
                  THEN [best EXCEPT ![idx] = entry]
                  ELSE best

RECURSIVE DedupFold(_, _)
DedupFold(best, actions) ==
    IF actions = <<>> THEN best
    ELSE DedupFold(DedupStep(best, Head(actions)), Tail(actions))

dedup_actions(actions) ==
    LET best == DedupFold(<<>>, actions)
    IN  [i \in 1..Len(best) |-> best[i].act]

\* ------------------------------------------------------------------------
\* Conversation progress (UserProgress) and its durable row
\* ------------------------------------------------------------------------
Chats == {1}
Tasks == {1, 2}
NoTask == 0
\* chat_id not in _store / no row in user_progress
NoRec == [absent |-> TRUE]

\* UserProgress(); last_reminder is never assigned and is not a column of
\* user_progress, it stays None and is left out
DefaultProgress ==
    [diagnostic_answers |-> <<>>, diagnostic_done |-> FALSE,
     training_index |-> 0, training_case_pending |-> FALSE,
     skill |-> "feedback", skill_chosen |-> FALSE, skill_pending |-> FALSE,
     sphere |-> "general", sphere_chosen |-> FALSE, sphere_pending |-> FALSE,
     diagnostic_questions |-> <<>>, training_cases |-> <<>>]

BoolToInt(b) == IF b THEN 1 ELSE 0
IntToBool(i) == i # 0

\* ProgressDB.save_progress: booleans become INTEGER columns, the three lists
\* are stored as JSON text
ToRow(p) ==
    [diagnostic_answers |-> p.diagnostic_answers,
     diagnostic_done |-> BoolToInt(p.diagnostic_done),
     training_index |-> p.training_index,
     training_case_pending |-> BoolToInt(p.training_case_pending),
     skill |-> p.skill,
     skill_chosen |-> BoolToInt(p.skill_chosen),
     skill_pending |-> BoolToInt(p.skill_pending),
     sphere |-> p.sphere,
     sphere_chosen |-> BoolToInt(p.sphere_chosen),
     sphere_pending |-> BoolToInt(p.sphere_pending),
     diagnostic_questions |-> p.diagnostic_questions,
     training_cases |-> p.training_cases]

\* ProgressDB.get_progress followed by UserProgress.from_dict
from_dict(r) ==
    [diagnostic_answers |-> r.diagnostic_answers,
     diagnostic_done |-> IntToBool(r.diagnostic_done),
     training_index |-> r.training_index,
     training_case_pending |-> IntToBool(r.training_case_pending),
     skill |-> r.skill,
     skill_chosen |-> IntToBool(r.skill_chosen),
     skill_pending |-> IntToBool(r.skill_pending),
     sphere |-> r.sphere,
     sphere_chosen |-> IntToBool(r.sphere_chosen),
     sphere_pending |-> IntToBool(r.sphere_pending),
     diagnostic_questions |-> r.diagnostic_questions,
     training_cases |-> r.training_cases]

\* StateStore._load_from_db: None when there is no row
LoadFromDb(chat) == IF db[chat] = NoRec THEN NoRec ELSE from_dict(db[chat])

\* the record a fresh process would work with for chat: what get() returns
\* when the cache does not hold the chat
Durable(chat) == IF db[chat] = NoRec THEN DefaultProgress ELSE from_dict(db[chat])

\* self._store.setdefault(chat_id, UserProgress())
SetDefault(chat) == IF store[chat] = NoRec THEN DefaultProgress ELSE store[chat]

\* ------------------------------------------------------------------------
\* Static catalogs (data.py) and settings
\* ------------------------------------------------------------------------
DIAGNOSTIC_QUESTIONS ==
    << [text |-> "sq1", options |-> <<"so1", "so2">>],
       [text |-> "sq2", options |-> <<"so1", "so2">>] >>

TRAINING_CASES_FEEDBACK == <<"f1", "f2">>
TRAINING_CASES_IDP == <<"i1", "i2">>

\* (code, label)
SPHERES == << <<"it", "IT">> >>

StaticCases(skill) ==
    IF skill = "feedback" THEN TRAINING_CASES_FEEDBACK ELSE TRAINING_CASES_IDP

get_case(skill, idx) ==
    LET cat == StaticCases(skill) IN cat[(idx % Len(cat)) + 1]

\* ------------------------------------------------------------------------
\* Events
\* ------------------------------------------------------------------------
ActionNames ==
    {"start", "sphere:menu", "sphere:custom", "sphere:it", "sphere:zz",
     "diagnostic:start", "training:start", "menu:progress", "menu:reminders",
     "skill:feedback", "skill:idp", "menu:toc", "noop"}

CallbackData ==
    {"diag:0:0", "case:next", "resume:yes", "training:restart",
     "remind:later", "case:retry", "noop"}

\* free texts: empty, a short answer, the same padded with blanks, an answer
\* with two positive keywords
Texts == {"", "qa", " qa ", "concrete actions"}

Events ==
    { [type |-> "action", action |-> a, data |-> "", text |-> ""] : a \in ActionNames }
    \cup
    { [type |-> "callback", action |-> "", data |-> d, text |-> ""] : d \in CallbackData }
    \cup
    { [type |-> "text", action |-> "", data |-> "", text |-> x] : x \in Texts }
    \cup
    { [type |-> "photo", action |-> "", data |-> "", text |-> ""] }

\* str.startswith over the event alphabet
StartsWith(s, prefix) ==
    CASE prefix = "sphere:menu" -> s = "sphere:menu"
      [] prefix = "sphere:" -> s \in {"sphere:menu", "sphere:custom", "sphere:it", "sphere:zz"}
      [] prefix = "diag:" -> s = "diag:0:0"
      [] prefix = "case:next" -> s = "case:next"
      [] prefix = "training:restart" -> s = "training:restart"
      [] prefix = "remind:later" -> s = "remind:later"
      [] prefix = "case:retry" -> s = "case:retry"
      [] OTHER -> FALSE

\* action_name.split("sphere:", 1)[1]
SphereCode(action_name) ==
    CASE action_name = "sphere:it" -> "it"
      [] action_name = "sphere:zz" -> "zz"
      [] action_name = "sphere:custom" -> "custom"
      [] OTHER -> "menu"

\* str.strip over Texts
Strip(s) == IF s = " qa " THEN "qa" ELSE s

\* ------------------------------------------------------------------------
\* Answer Evaluator, heuristic mode (ai.py evaluate_answer)
\* ------------------------------------------------------------------------
WordLimit == 12
GoodScore == 2

\* An answer is read as its sequence of tokens: a blank, or a piece of a
\* word.  Tokens stand side by side as characters do: two pieces with no
\* blank between them are one word.
Blank == " "

TokensOf(text) ==
    CASE text = "" -> <<>>
      [] text = "qa" -> <<"qa">>
      [] text = " qa " -> <<Blank, "qa", Blank>>
      [] text = "concrete actions" -> <<"concrete", Blank, "actions">>

\* settings.ai_positive_keywords (stand-ins of the configured keywords)
ai_positive_keywords == <<"concrete", "actions">>

\* str.lower, token by token
LowerToken(tok) == IF tok = "Concrete" THEN "concrete" ELSE tok
Lower(toks) == [i \in 1..Len(toks) |-> LowerToken(toks[i])]

\* `kw in lower`: the keyword is the token or a part of it
TokenContains(tok, kw) == tok = kw \/ (tok = "concretely" /\ kw = "concrete")
Occurs(kw, toks) == \E i \in 1..Len(toks) : TokenContains(toks[i], kw)

\* the loop of lines 14-17 over the first n keywords
RECURSIVE KeywordScore(_, _)
KeywordScore(toks, n) ==
    IF n = 0 THEN 0
    ELSE KeywordScore(toks, n - 1)
         + (IF Occurs(ai_positive_keywords[n], Lower(toks)) THEN 1 ELSE 0)

\* len(text.split()): the words are the runs of tokens between blanks
RECURSIVE SplitCount(_, _)
SplitCount(toks, inWord) ==
    IF toks = <<>> THEN 0
    ELSE IF Head(toks) = Blank THEN SplitCount(Tail(toks), FALSE)
    ELSE (IF inWord THEN 0 ELSE 1) + SplitCount(Tail(toks), TRUE)

\* mutant of TokenScore: a long answer scores at 12 words already
TokenScore_AtLimit(toks) ==
    KeywordScore(toks, Len(ai_positive_keywords))
    + (IF SplitCount(toks, FALSE) >= WordLimit THEN 1 ELSE 0)

\* the score of lines 13-18
TokenScore(toks) ==
    KeywordScore(toks, Len(ai_positive_keywords))
    + (IF SplitCount(toks, FALSE) > WordLimit THEN 1 ELSE 0)

\* number of the configured positive keywords occurring in text.lower()
KeywordHits(text) == KeywordScore(TokensOf(text), Len(ai_positive_keywords))

\* len(text.split())
WordCount(text) == SplitCount(TokensOf(text), FALSE)

AnswerScore(text) == TokenScore(TokensOf(text))

AnswerIsGood(text) == AnswerScore(text) >= GoodScore

\* random.choice of the two texts of a good verdict
GoodFeedback == {"Great, concrete", "Well put"}
WeakFeedback == "Too shallow, try again"

\* evaluate_answer: the verdict and one of its feedback texts
evaluate_answer(toks) ==
    IF TokenScore(toks) >= GoodScore
    THEN {[good |-> TRUE, feedback |-> f] : f \in GoodFeedback}
    ELSE {[good |-> FALSE, feedback |-> WeakFeedback]}

\* number of answers holding one of the two substrings looked for; the
\* answers are the callback data "diag:<q>:<o>", which hold neither
DiagPositives(answers) == 0

interpret_diagnostic(answers) ==
    IF answers = <<>> THEN "Diagnostic not filled"
    ELSE IF 2 * DiagPositives(answers) >= Len(answers) THEN "Level basic"
    ELSE "Growth zones"

\* ------------------------------------------------------------------------
\* Message builders
\* ------------------------------------------------------------------------
NextStepKeyboard ==
    <<"action:diagnostic:start", "action:training:start", "action:start">>

\* mutant of MenuMessage: the menu lacks the diagnostic button
MenuMessage_NoDiagnostic(chat) ==
    send_message_action(chat, "Hello, choose where to start",
        <<"action:training:start", "action:menu:reminders", "action:sphere:menu">>)

MenuMessage(chat) ==
    send_message_action(chat, "Hello, choose where to start",
        <<"action:diagnostic:start", "action:training:start",
          "action:menu:reminders", "action:sphere:menu">>)

SpherePrompt(chat) ==
    send_message_action(chat, "Write your sphere", <<"action:start">>)

SkillPrompt(chat) ==
    send_message_action(chat, "Write the skill to train", <<"action:start">>)

SphereChosenMessage(chat, label) ==
    send_message_action(chat, "Sphere chosen: " \o label, NextStepKeyboard)

UnknownSphereMessage(chat) ==
    send_message_action(chat, "Unknown sphere",
        [i \in 1..Len(SPHERES) |-> "action:sphere:" \o SPHERES[i][1]])

SphereSetMessage(chat, text) ==
    send_message_action(chat, "Sphere set: " \o text, NextStepKeyboard)

UnavailableMessage(chat) ==
    send_message_action(chat, "Section unavailable", <<"action:start">>)

RemindersMessage(chat) ==
    send_message_action(chat, "Remind you later?", <<"remind:later", "resume:yes">>)

NoQuestionsMessage(chat) ==
    send_message_action(chat, "No diagnostic questions from AI", <<"action:start">>)

\* options whose text is blank are skipped; the catalogs hold none
diagnostic_question_payload(idx, total, chat, question) ==
    send_message_action(chat,
        "Diagnostic question " \o ToString(idx + 1) \o "/" \o ToString(total)
            \o ": " \o question.text,
        [o \in 1..Len(question.options) |->
            "diag:" \o ToString(idx) \o ":" \o ToString(o - 1)])

DiagnosticDoneMessage(chat, summary) ==
    send_message_action(chat, "Diagnostic finished: " \o summary,
        <<"action:training:start", "action:diagnostic:start", "action:start">>)

\* mutant of training_case_payload: the last case counts as out of range
training_case_payload_OffByOne(skill, idx, chat, cases) ==
    IF idx + 1 >= Len(cases)
    THEN send_message_action(chat, "Cases exhausted",
             <<"training:restart", "action:skill:feedback", "action:start">>)
    ELSE send_message_action(chat,
             "Case " \o ToString(idx + 1) \o ": " \o cases[idx + 1],
             <<"remind:later", "action:start", "action:skill:feedback">>)

training_case_payload(skill, idx, chat, cases) ==
    IF idx >= Len(cases)
    THEN send_message_action(chat, "Cases exhausted",
             <<"training:restart", "action:skill:feedback", "action:start">>)
    ELSE send_message_action(chat,
             "Case " \o ToString(idx + 1) \o ": " \o cases[idx + 1],
             <<"remind:later", "action:start", "action:skill:feedback">>)

PreparingMessage(chat) ==
    send_message_action(chat, "Preparing the first case", NoKeyboard)

NoCasesMessage(chat) ==
    send_message_action(chat, "Could not prepare cases", <<"action:start">>)

\* mutant of HeuristicFeedbackFallback: the retry button whatever the verdict
HeuristicFeedbackFallback_AlwaysRetry(chat, good, feedback) ==
    send_message_action(chat, feedback, <<"case:retry">>)

HeuristicFeedbackFallback(chat, good, feedback) ==
    send_message_action(chat, feedback,
        IF good THEN <<"case:next">> ELSE <<"case:retry">>)

HeuristicFeedback(chat, good, feedback) ==
    send_message_action(chat, feedback,
        IF good THEN <<"case:next">> ELSE <<"case:retry", "action:start">>)

NeutralMessage(chat) ==
    send_message_action(chat, "Got it, choose an action in the menu",
        <<"action:training:start", "action:menu:progress", "action:start">>)

ReminderAck(chat) == send_message_action(chat, "OK, will remind later", NoKeyboard)
CommandAck(chat) == send_message_action(chat, "Command accepted", NoKeyboard)
SignalAck(chat) == send_message_action(chat, "Signal received", NoKeyboard)
EventAck(chat) == send_message_action(chat, "Event accepted", NoKeyboard)

\* ------------------------------------------------------------------------
\* AI backend (ai_client.py): what one call can come back with
\* ------------------------------------------------------------------------
\* kind "raised": network error, HTTP error, content that does not parse
Raised(empty) == [kind |-> "raised", value |-> empty]
Returned(v) == [kind |-> "returned", value |-> v]

\* generate_cases: the stripped non-empty cases, possibly none
GenerateCasesOutcomes ==
    {Raised(<<>>), Returned(<<>>), Returned(<<"g1">>), Returned(<<"h1", "h2">>)}

\* generate_diagnostic: the normalised questions, possibly none
GenerateDiagnosticOutcomes ==
    {Raised(<<>>), Returned(<<>>),
     Returned(<< [text |-> "aq1", options |-> <<"ao1", "ao2">>] >>)}

\* summarize_diagnostic
SummarizeOutcomes == {Raised(""), Returned("AI summary")}

\* a "text" value that is a JSON array or object instead of a string
NonScalarText == "[json array]"

\* build_actions returns json.loads(content)["actions"] when it is non-empty:
\* a list of action objects, or a value whose items are not objects
NotObjects == [kind |-> "not_objects", value |-> <<>>]

AIAction(text, keyboard) ==
    [type |-> "send_message", chat_id |-> 0, text |-> text,
     parse_mode |-> "HTML", keyboard |-> keyboard]

BuildActionsOutcomes ==
    {Raised(<<>>), NotObjects,
     Returned(<< AIAction("AI: good", <<"case:next">>) >>),
     Returned(<< AIAction("AI: weak", <<"case:retry">>) >>),
     Returned(<< AIAction(NonScalarText, <<"case:retry">>) >>)}

\* sqlite3 binds str, int, float, None; a list or dict raises ProgrammingError
SqlBindable(text) == text # NonScalarText

\* ------------------------------------------------------------------------
\* Request tasks
\* ------------------------------------------------------------------------
NoEvent == [type |-> "none", action |-> "", data |-> "", text |-> ""]
NoOp == [name |-> "none", flag |-> FALSE, str |-> ""]
NoResult == [status |-> "none", actions |-> <<>>]
\* nothing handled yet in this process life
NoLast == [solo |-> FALSE, ev |-> NoEvent, result |-> NoResult,
           progress |-> DefaultProgress]

IdleTask ==
    [pc |-> "idle", ev |-> NoEvent, chat |-> 1, op |-> NoOp, cont |-> "",
     skill |-> "", got |-> <<>>, cases |-> <<>>, questions |-> <<>>,
     next_idx |-> 0,
     case_idx |-> 0, case_text |-> "", summary |-> "", actions |-> <<>>,
     result |-> NoResult, solo |-> FALSE, retry |-> FALSE,
     before |-> DefaultProgress, fallback |-> FALSE]

\* the request has been answered: a response, or an unhandled exception
FinalPcs == {"done", "failed"}
\* awaiting the HTTP call of the AI backend
AwaitPcs == {"ai_diag", "ai_cases", "ai_summary", "ai_build"}

InFlight(t) == task[t].pc # "idle"

\* `await state_store.<name>(...)`, then go on at cont
Call(tr, name, flag, str, cont) ==
    [tr EXCEPT !.pc = "acquire",
               !.op = [name |-> name, flag |-> flag, str |-> str],
               !.cont = cont]

\* lines 924-935: store the bot's messages, return the de-duplicated actions;
\* ConversationDB.save_message raises when a text cannot be bound
Fin(tr, acts) ==
    IF \A i \in 1..Len(acts) :
           (acts[i].type = "send_message" /\ acts[i].text # "")
               => SqlBindable(acts[i].text)
    THEN [tr EXCEPT !.pc = "done",
                    !.result = [status |-> "ok", actions |-> dedup_actions(acts)]]
    ELSE [tr EXCEPT !.pc = "failed",
                    !.result = [status |-> "error", actions |-> <<>>]]

\* `return JSONResponse({"actions": actions})` in the middle of the handler
Ret(tr, acts) ==
    [tr EXCEPT !.pc = "done", !.result = [status |-> "ok", actions |-> acts]]

\* ensure_training_cases(state, skill, ...) up to its await or its return
NeedsCasesCall(p) == aiEnabled /\ p.training_cases = <<>>

\* mutant of CasesOrStatic: no static fallback
CasesOrStatic_NoFallback(cases, skill) == cases

CasesOrStatic(cases, skill) ==
    IF cases = <<>> THEN StaticCases(skill) ELSE cases

EnsureCasesTask(tr, p, cont) ==
    IF NeedsCasesCall(p)
    THEN [tr EXCEPT !.pc = "ai_cases", !.cont = cont, !.skill = p.skill]
    ELSE [tr EXCEPT !.pc = cont,
                    !.cases = CasesOrStatic(p.training_cases, p.skill)]

EnsureCasesProgress(p) ==
    IF NeedsCasesCall(p) THEN p
    ELSE [p EXCEPT !.training_cases = CasesOrStatic(@, p.skill)]

\* mutant of NeedsDiagCall: the generator is asked whatever the record holds
NeedsDiagCall_Always(p) == aiEnabled

\* ensure_diagnostic_questions up to its await or its return
NeedsDiagCall(p) == aiEnabled /\ p.diagnostic_questions = <<>>

EnsureDiagProgress(p) ==
    IF p.diagnostic_questions = <<>> /\ ~aiEnabled
    THEN [p EXCEPT !.diagnostic_questions = DIAGNOSTIC_QUESTIONS]
    ELSE p

\* one step of task t: its new record tr and the new progress p of its chat;
\* when the request is answered the task is gone and `last` keeps its event,
\* its outcome and the progress it left
Apply(t, tr, p) ==
    /\ store' = [store EXCEPT ![tr.chat] = p]
    /\ task' = [task EXCEPT ![t] = IF tr.pc \in FinalPcs THEN IdleTask ELSE tr]
    /\ running' = IF tr.pc \in FinalPcs \cup AwaitPcs THEN NoTask ELSE t
    /\ last' = IF tr.pc \in FinalPcs
               THEN [solo |-> tr.solo, ev |-> tr.ev, result |-> tr.result,
                     progress |-> p]
               ELSE last
    /\ UNCHANGED <<db, lock, aiEnabled, nEvents, dedupVars, reminderVars, storage, callVars, frontVars>>

At(t, label) == running = t /\ task[t].pc = label

\* ------------------------------------------------------------------------
\* Initial state of the engine: a fresh process, nothing cached
\* ------------------------------------------------------------------------
\* no function has been called on its own
NoValue == [none |-> TRUE]
NoCall == arg = NoValue /\ ret = NoValue

\* the bounds of the front-end scenarios
MaxHandlers == 2
MaxGateChats == 2
Handlers == 1..MaxHandlers
GateChats == 1..MaxGateChats

\* a handler task that is not running; how tells the way its last run ended
IdleHandler == [pc |-> "idle", kind |-> "none", chat |-> 0, resp |-> "none",
                how |-> "none"]

\* the front end at rest: no request in flight, no update seen
FrontIdle ==
    /\ pending_chats = {}
    /\ handler = [h \in Handlers |-> IdleHandler]
    /\ seen = {}
    /\ queue = <<>>
    /\ dispatched = <<>>

\* no reminder task exists
NoReminders ==
    [created |-> 0, sleeping |-> 0, skipped |-> 0, pushed |-> 0, failed |-> 0]

\* FRONTEND_PUSH_URL is read by schedule_reminder alone: nothing depends on
\* it before the first reminder task starts
PushUrlUnread == "unread"

EngineInit ==
    /\ store = [c \in Chats |-> NoRec]
    /\ lock = NoTask
    /\ running = NoTask
    /\ task = [t \in Tasks |-> IdleTask]
    /\ nEvents = 0
    /\ last = NoLast
    /\ reminders = NoReminders
    /\ push_url = PushUrlUnread
    /\ storage = "up"
    /\ NoCall
    /\ FrontIdle

\* ------------------------------------------------------------------------
\* StateStore
\* ------------------------------------------------------------------------
\* mutant of save_to_db: the record is not written
save_to_db_Skipped(chat, p) == db' = db

\* StateStore._save_to_db
save_to_db(chat, p) == db' = [db EXCEPT ![chat] = ToRow(p)]

\* `async with self._lock:` entered; the lock is free whenever a task gets to
\* run, because no critical section contains a suspension point
Acquire(t) ==
    /\ At(t, "acquire")
    /\ lock = NoTask
    /\ lock' = t
    /\ task' = [task EXCEPT ![t].pc = "locked"]
    /\ UNCHANGED <<store, db, running, aiEnabled, nEvents, last, dedupVars, reminderVars, storage, callVars, frontVars>>

InStore(t, name) == At(t, "locked") /\ task[t].op.name = name /\ lock = t

\* ProgressDB.save_progress commits, or raises when the database fails
SaveOutcomes == IF storage = "up" THEN {"saved"} ELSE {"saved", "raised"}

\* mutant of SaveRaised: the exception is swallowed, the setter returns
SaveRaised_Swallowed(t, p) ==
    /\ db' = db
    /\ task' = [task EXCEPT ![t].pc = task[t].cont]
    /\ UNCHANGED <<running, last>>

\* the write raised: get_db rolls back and re-raises, `async with` lets the
\* exception through, ingest has no handler for it and the request fails
SaveRaised(t, p) ==
    /\ db' = db
    /\ task' = [task EXCEPT ![t] = IdleTask]
    /\ running' = NoTask
    /\ last' = [solo |-> task[t].solo, ev |-> task[t].ev,
                result |-> [status |-> "error", actions |-> <<>>],
                progress |-> p]

\* the body of a setter: update the cached record, save it, leave the lock
Setter(t, p) ==
    /\ store' = [store EXCEPT ![task[t].chat] = p]
    /\ lock' = NoTask
    /\ \E o \in SaveOutcomes :
          IF o = "saved"
          THEN /\ save_to_db(task[t].chat, p)
               /\ task' = [task EXCEPT ![t].pc = task[t].cont]
               /\ UNCHANGED <<running, last>>
          ELSE SaveRaised(t, p)
    /\ UNCHANGED <<aiEnabled, nEvents, dedupVars, reminderVars, storage, callVars, frontVars>>

\* mutant of Get: the record is read from the database on every call
Get_Reloads(t) ==
    /\ InStore(t, "get")
    /\ LET c == task[t].chat IN
       store' = [store EXCEPT ![c] = IF LoadFromDb(c) # NoRec
                                     THEN LoadFromDb(c)
                                     ELSE DefaultProgress]
    /\ lock' = NoTask
    /\ task' = [task EXCEPT ![t].pc = task[t].cont,
                            ![t].before = IF task[t].cont = "L500"
                                          THEN store'[task[t].chat] ELSE @]
    /\ UNCHANGED <<db, running, aiEnabled, nEvents, last, dedupVars, reminderVars, storage, callVars, frontVars>>

Get(t) ==
    /\ InStore(t, "get")
    /\ LET c == task[t].chat IN
       store' = IF store[c] # NoRec THEN store
                ELSE [store EXCEPT ![c] = IF LoadFromDb(c) # NoRec
                                          THEN LoadFromDb(c)
                                          ELSE DefaultProgress]
    /\ lock' = NoTask
    \* `before` remembers the progress the event found (line 484)
    /\ task' = [task EXCEPT ![t].pc = task[t].cont,
                            ![t].before = IF task[t].cont = "L500"
                                          THEN store'[task[t].chat] ELSE @]
    /\ UNCHANGED <<db, running, aiEnabled, nEvents, last, dedupVars, reminderVars, storage, callVars, frontVars>>

ResetDiagnostic(t) ==
    /\ InStore(t, "reset_diagnostic")
    /\ Setter(t, [SetDefault(task[t].chat) EXCEPT
                     !.diagnostic_answers = <<>>,
                     !.diagnostic_done = FALSE,
                     !.diagnostic_questions = <<>>])

\* mutant of IncrementTraining: the index before the increment is returned
IncrementTraining_ReturnsOld(t) ==
    /\ InStore(t, "increment_training")
    /\ LET p == SetDefault(task[t].chat)
           q == [p EXCEPT !.training_index = @ + 1,
                          !.training_case_pending = TRUE]
       IN  /\ store' = [store EXCEPT ![task[t].chat] = q]
           /\ save_to_db(task[t].chat, q)
           /\ lock' = NoTask
           /\ task' = [task EXCEPT ![t].pc = task[t].cont,
                                   ![t].next_idx = p.training_index]
           /\ UNCHANGED <<running, aiEnabled, nEvents, last, dedupVars, reminderVars, storage, callVars, frontVars>>

IncrementTraining(t) ==
    /\ InStore(t, "increment_training")
    /\ LET p == SetDefault(task[t].chat)
           q == [p EXCEPT !.training_index = @ + 1,
                          !.training_case_pending = TRUE]
       IN  /\ store' = [store EXCEPT ![task[t].chat] = q]
           /\ lock' = NoTask
           /\ \E o \in SaveOutcomes :
                 IF o = "saved"
                 THEN /\ save_to_db(task[t].chat, q)
                      /\ task' = [task EXCEPT ![t].pc = task[t].cont,
                                              ![t].next_idx = q.training_index]
                      /\ UNCHANGED <<running, last>>
                 ELSE SaveRaised(t, q)
           /\ UNCHANGED <<aiEnabled, nEvents, dedupVars, reminderVars, storage, callVars, frontVars>>

\* mutant of SetSkill: skill_pending is left as it is
SetSkill_KeepsPending(t) ==
    /\ InStore(t, "set_skill")
    /\ Setter(t, [SetDefault(task[t].chat) EXCEPT
                     !.skill = task[t].op.str,
                     !.skill_chosen = TRUE,
                     !.training_cases = <<>>,
                     !.training_index = 0,
                     !.training_case_pending = FALSE])

SetSkill(t) ==
    /\ InStore(t, "set_skill")
    /\ Setter(t, [SetDefault(task[t].chat) EXCEPT
                     !.skill = task[t].op.str,
                     !.skill_chosen = TRUE,
                     !.skill_pending = FALSE,
                     !.training_cases = <<>>,
                     !.training_index = 0,
                     !.training_case_pending = FALSE])

\* mutant of SetSkillPending: asking for the skill ends the wait for a sphere
SetSkillPending_EndsSphereWait(t) ==
    /\ InStore(t, "set_skill_pending")
    /\ Setter(t, [SetDefault(task[t].chat) EXCEPT
                     !.skill_pending = task[t].op.flag,
                     !.sphere_pending = FALSE])

SetSkillPending(t) ==
    /\ InStore(t, "set_skill_pending")
    /\ Setter(t, [SetDefault(task[t].chat) EXCEPT
                     !.skill_pending = task[t].op.flag])

\* mutant of SetSphere: sphere_pending is left as it is
SetSphere_KeepsPending(t) ==
    /\ InStore(t, "set_sphere")
    /\ Setter(t, [SetDefault(task[t].chat) EXCEPT
                     !.sphere = task[t].op.str,
                     !.sphere_chosen = TRUE,
                     !.diagnostic_questions = <<>>])

SetSphere(t) ==
    /\ InStore(t, "set_sphere")
    /\ Setter(t, [SetDefault(task[t].chat) EXCEPT
                     !.sphere = task[t].op.str,
                     !.sphere_chosen = TRUE,
                     !.sphere_pending = FALSE,
                     !.diagnostic_questions = <<>>])

\* mutant of SetSpherePending: the training fields are left as they are
SetSpherePending_KeepsTraining(t) ==
    /\ InStore(t, "set_sphere_pending")
    /\ LET p == SetDefault(task[t].chat) IN
       Setter(t, IF task[t].op.flag
                 THEN [p EXCEPT !.sphere_pending = TRUE,
                                !.sphere_chosen = FALSE]
                 ELSE [p EXCEPT !.sphere_pending = FALSE])

SetSpherePending(t) ==
    /\ InStore(t, "set_sphere_pending")
    /\ LET p == SetDefault(task[t].chat) IN
       Setter(t, IF task[t].op.flag
                 THEN [p EXCEPT !.sphere_pending = TRUE,
                                !.sphere_chosen = FALSE,
                                !.training_case_pending = FALSE,
                                !.training_index = 0,
                                !.training_cases = <<>>]
                 ELSE [p EXCEPT !.sphere_pending = FALSE])

\* mutant of SetTrainingPending: the lock is still held on return
SetTrainingPending_HoldsLock(t) ==
    /\ InStore(t, "set_training_pending")
    /\ LET p == [SetDefault(task[t].chat) EXCEPT
                    !.training_case_pending = task[t].op.flag]
       IN  /\ store' = [store EXCEPT ![task[t].chat] = p]
           /\ save_to_db(task[t].chat, p)
           /\ lock' = lock
           /\ task' = [task EXCEPT ![t].pc = task[t].cont]
           /\ UNCHANGED <<running, aiEnabled, nEvents, last, dedupVars, reminderVars, storage, callVars, frontVars>>

SetTrainingPending(t) ==
    /\ InStore(t, "set_training_pending")
    /\ Setter(t, [SetDefault(task[t].chat) EXCEPT
                     !.training_case_pending = task[t].op.flag])

\* ------------------------------------------------------------------------
\* /ingest: an event arrives (lines 474-484)
\* ------------------------------------------------------------------------
\* Request tasks are anonymous: the free slot with the lowest number is used.
ReceiveFrom(t, evs, max) ==
    \E e \in evs, c \in Chats :
        /\ running = NoTask
        /\ ~InFlight(t)
        /\ \A u \in Tasks : u < t => InFlight(u)
        /\ nEvents < max
        /\ LET alone == \A u \in Tasks \ {t} : ~InFlight(u)
               fresh == [IdleTask EXCEPT
                            !.ev = e, !.chat = c, !.solo = alone,
                            !.retry = alone /\ last.solo /\ last.ev = e]
           IN  task' = [u \in Tasks |->
                          IF u = t THEN Call(fresh, "get", FALSE, "", "L500")
                          ELSE IF InFlight(u)
                               THEN [task[u] EXCEPT !.solo = FALSE, !.retry = FALSE]
                               ELSE task[u]]
        /\ running' = t
        /\ nEvents' = nEvents + 1
        /\ UNCHANGED <<store, db, lock, aiEnabled, last, dedupVars, reminderVars, storage, callVars, frontVars>>

Receive(t) == ReceiveFrom(t, Events, MaxEvents)

\* ------------------------------------------------------------------------
\* /ingest: events of type "action" (lines 505-715)
\* ------------------------------------------------------------------------
KnownSphere(code) == \E i \in 1..Len(SPHERES) : SPHERES[i][1] = code

SphereLabel(code) ==
    SPHERES[CHOOSE i \in 1..Len(SPHERES) : SPHERES[i][1] = code][2]

\* mutant of TrainingStart: the sphere is not looked at
TrainingStart_IgnoresSphere(tr, p) ==
    IF ~p.skill_chosen
    THEN Call(tr, "set_skill_pending", TRUE, "", "L629")
    ELSE IF p.training_case_pending /\ p.training_cases # <<>>
    THEN Ret(tr, << training_case_payload(p.skill, p.training_index, tr.chat,
                                          p.training_cases) >>)
    ELSE Call(tr, "set_training_pending", TRUE, "", "L647")

\* mutant of TrainingStart: an unfinished case does not stop a new start
TrainingStart_AlwaysRestarts(tr, p) ==
    IF ~p.sphere_chosen
    THEN Call(tr, "set_sphere_pending", TRUE, "", "L581")
    ELSE IF ~p.skill_chosen
    THEN Call(tr, "set_skill_pending", TRUE, "", "L629")
    ELSE Call(tr, "set_training_pending", TRUE, "", "L647")

\* lines 612-646
TrainingStart(tr, p) ==
    IF ~p.sphere_chosen
    THEN Call(tr, "set_sphere_pending", TRUE, "", "L581")
    ELSE IF ~p.skill_chosen
    THEN Call(tr, "set_skill_pending", TRUE, "", "L629")
    ELSE IF p.training_case_pending /\ p.training_cases # <<>>
    THEN Ret(tr, << training_case_payload(p.skill, p.training_index, tr.chat,
                                          p.training_cases) >>)
    ELSE Call(tr, "set_training_pending", TRUE, "", "L647")

DispatchAction(t) ==
    /\ At(t, "L500")
    /\ task[t].ev.type = "action"
    /\ LET tr == task[t]
           c == tr.chat
           p == store[c]
           a == tr.ev.action
       IN  Apply(t,
             IF a \in {"start", "menu:start", "action:start"}
                 THEN Fin(tr, << MenuMessage(c) >>)
             ELSE IF StartsWith(a, "sphere:menu")
                 THEN Call(tr, "set_sphere_pending", TRUE, "", "L523")
             ELSE IF a = "sphere:custom"
                 THEN Call(tr, "set_sphere_pending", TRUE, "", "L523")
             ELSE IF StartsWith(a, "sphere:")
                 THEN IF KnownSphere(SphereCode(a))
                      THEN Call(tr, "set_sphere", FALSE, SphereCode(a), "L552")
                      ELSE Fin(tr, << UnknownSphereMessage(c) >>)
             ELSE IF a = "diagnostic:start"
                 THEN Call(tr, "reset_diagnostic", FALSE, "", "L578")
             ELSE IF a = "training:start"
                 THEN TrainingStart(tr, p)
             ELSE IF a = "menu:progress"
                 THEN Fin(tr, << UnavailableMessage(c) >>)
             ELSE IF a = "menu:reminders"
                 THEN Fin(tr, << RemindersMessage(c) >>)
             ELSE IF a = "skill:feedback"
                 THEN Call(tr, "set_skill_pending", TRUE, "", "L682")
             ELSE IF a = "skill:idp"
                 THEN Call(tr, "set_skill_pending", TRUE, "", "L682")
             ELSE IF a = "menu:toc"
                 THEN Fin(tr, << UnavailableMessage(c) >>)
             ELSE Fin(tr, << CommandAck(c) >>),
             p)

\* lines 523-533 and 536-546: the sphere prompt after set_sphere_pending
SpherePromptSent(t) ==
    /\ At(t, "L523")
    /\ Apply(t, Fin(task[t], << SpherePrompt(task[t].chat) >>), store[task[t].chat])

\* lines 552-565
SphereChosenSent(t) ==
    /\ At(t, "L552")
    /\ Apply(t, Fin(task[t], << SphereChosenMessage(task[t].chat,
                                    SphereLabel(task[t].op.str)) >>),
             store[task[t].chat])

\* line 578: state = await state_store.get(...)
DiagnosticStartReload(t) ==
    /\ At(t, "L578")
    /\ Apply(t, Call(task[t], "get", FALSE, "", "L579"), store[task[t].chat])

\* lines 579-593: ask for the sphere, or call ensure_diagnostic_questions
DiagnosticStartCheck(t) ==
    /\ At(t, "L579")
    /\ LET tr == task[t]
           p == store[tr.chat]
           q == EnsureDiagProgress(p)
       IN  IF ~p.sphere_chosen
           THEN Apply(t, Call(tr, "set_sphere_pending", TRUE, "", "L581"), p)
           ELSE IF NeedsDiagCall(p)
           THEN Apply(t, [tr EXCEPT !.pc = "ai_diag"], p)
           ELSE Apply(t, [tr EXCEPT !.pc = "L594",
                                    !.questions = q.diagnostic_questions], q)

\* lines 581-592 and 615-626: early return with the sphere prompt
SpherePromptReturned(t) ==
    /\ At(t, "L581")
    /\ Apply(t, Ret(task[t], << SpherePrompt(task[t].chat) >>), store[task[t].chat])

\* lines 594-611
DiagnosticStartAnswer(t) ==
    /\ At(t, "L594")
    /\ LET tr == task[t]
           qs == tr.questions
       IN  Apply(t,
             IF qs = <<>>
             THEN Fin(tr, << NoQuestionsMessage(tr.chat) >>)
             ELSE Fin(tr, << diagnostic_question_payload(0, Len(qs), tr.chat, qs[1]) >>),
             store[tr.chat])

\* lines 629-640: early return with the skill prompt
SkillPromptReturned(t) ==
    /\ At(t, "L629")
    /\ Apply(t, Ret(task[t], << SkillPrompt(task[t].chat) >>), store[task[t].chat])

\* lines 647-648: reset index and cases in place
TrainingStartReset(t) ==
    /\ At(t, "L647")
    /\ Apply(t, [task[t] EXCEPT !.pc = "L649"],
             [store[task[t].chat] EXCEPT !.training_index = 0,
                                         !.training_cases = <<>>])

\* line 649: call ensure_training_cases
TrainingStartEnsure(t) ==
    /\ At(t, "L649")
    /\ LET p == store[task[t].chat]
       IN  Apply(t, EnsureCasesTask(task[t], p, "L650"), EnsureCasesProgress(p))

\* lines 650 and 766: the first case
FirstCaseSent(t) ==
    /\ At(t, "L650")
    /\ LET tr == task[t]
           p == store[tr.chat]
       IN  Apply(t, Fin(tr, << training_case_payload(p.skill, 0, tr.chat, tr.cases) >>), p)

\* lines 682-692 and 695-705
SkillPromptSent(t) ==
    /\ At(t, "L682")
    /\ Apply(t, Fin(task[t], << SkillPrompt(task[t].chat) >>), store[task[t].chat])

\* ------------------------------------------------------------------------
\* /ingest: events of type "callback" (lines 717-784)
\* ------------------------------------------------------------------------
QuestionsOrStatic(p) ==
    IF p.diagnostic_questions # <<>> THEN p.diagnostic_questions
    ELSE DIAGNOSTIC_QUESTIONS

\* lines 718-756 up to the await of summarize_diagnostic
DiagAnswer(tr, p) ==
    LET p1 == [p EXCEPT !.diagnostic_answers = Append(@, tr.ev.data)]
        next_idx == Len(p1.diagnostic_answers)
        qs == QuestionsOrStatic(p1)
        summary == interpret_diagnostic(p1.diagnostic_answers)
    IN  IF next_idx < Len(qs)
        THEN [tr |-> Fin(tr, << diagnostic_question_payload(
                                    next_idx, Len(qs), tr.chat, qs[next_idx + 1]) >>),
              p |-> p1]
        ELSE [tr |-> IF aiEnabled
                     THEN [tr EXCEPT !.pc = "ai_summary", !.summary = summary]
                     ELSE Fin(tr, << DiagnosticDoneMessage(tr.chat, summary) >>),
              p |-> [p1 EXCEPT !.diagnostic_done = TRUE]]

DispatchCallback(t) ==
    /\ At(t, "L500")
    /\ task[t].ev.type = "callback"
    /\ LET tr == task[t]
           c == tr.chat
           p == store[c]
           d == tr.ev.data
       IN  IF StartsWith(d, "diag:")
               THEN Apply(t, DiagAnswer(tr, p).tr, DiagAnswer(tr, p).p)
           ELSE IF StartsWith(d, "case:next") \/ d = "resume:yes"
               THEN Apply(t, Call(tr, "set_training_pending", TRUE, "", "L759"), p)
           ELSE IF StartsWith(d, "training:restart")
               THEN Apply(t, Call(tr, "set_training_pending", TRUE, "", "L765"),
                          [p EXCEPT !.training_index = 0])
           ELSE IF StartsWith(d, "remind:later")
               THEN Apply(t, [tr EXCEPT !.pc = "L774"], p)
           ELSE IF StartsWith(d, "case:retry")
               THEN Apply(t, Call(tr, "set_training_pending", TRUE, "", "L779"), p)
           ELSE Apply(t, Fin(tr, << SignalAck(c) >>), p)

\* mutant of ScheduleReminder: the coroutine is awaited to its end in place
ScheduleReminder_Awaited(r) == [r EXCEPT !.pushed = @ + 1]

\* asyncio.create_task(schedule_reminder(...)) (lines 774-776): one more task,
\* not started yet
ScheduleReminder(r) == [r EXCEPT !.created = @ + 1]

\* lines 768-776 and 924-935: the acknowledgment, the detached task, the
\* response
ReminderScheduled(t) ==
    /\ At(t, "L774")
    /\ reminders' = ScheduleReminder(reminders)
    /\ LET tr == Fin(task[t], << ReminderAck(task[t].chat) >>)
       IN  /\ task' = [task EXCEPT ![t] = IdleTask]
           /\ last' = [solo |-> tr.solo, ev |-> tr.ev, result |-> tr.result,
                       progress |-> store[tr.chat]]
    /\ running' = NoTask
    /\ UNCHANGED <<store, db, lock, aiEnabled, nEvents, push_url, dedupVars, storage, callVars, frontVars>>

\* schedule_reminder, lines 133-137: without a push URL the task ends at
\* once, otherwise it sleeps for the delay
ReminderStarts ==
    /\ running = NoTask
    /\ reminders.created > 0
    /\ \E url \in IF push_url = PushUrlUnread THEN {"set", "unset"} ELSE {push_url} :
          /\ push_url' = url
          /\ reminders' = IF url = "unset"
                          THEN [reminders EXCEPT !.created = @ - 1,
                                                 !.skipped = @ + 1]
                          ELSE [reminders EXCEPT !.created = @ - 1,
                                                 !.sleeping = @ + 1]
    /\ UNCHANGED <<store, db, lock, running, task, aiEnabled, nEvents, last,
                   dedupVars, storage, callVars, frontVars>>

\* mutant of ReminderPushes: a failed push leaves the task waiting to try again
ReminderPushes_Retries ==
    /\ running = NoTask
    /\ reminders.sleeping > 0
    /\ \E ok \in BOOLEAN :
          reminders' = IF ok
                       THEN [reminders EXCEPT !.sleeping = @ - 1, !.pushed = @ + 1]
                       ELSE [reminders EXCEPT !.failed = @ + 1]
    /\ reminders.failed < MaxEvents
    /\ UNCHANGED <<store, db, lock, running, task, aiEnabled, nEvents, last,
                   push_url, dedupVars, storage, callVars, frontVars>>

\* schedule_reminder, lines 138-160: after the delay one POST to the front
\* end; an exception is logged and the task ends
ReminderPushes ==
    /\ running = NoTask
    /\ reminders.sleeping > 0
    /\ \E ok \in BOOLEAN :
          reminders' = IF ok
                       THEN [reminders EXCEPT !.sleeping = @ - 1, !.pushed = @ + 1]
                       ELSE [reminders EXCEPT !.sleeping = @ - 1, !.failed = @ + 1]
    /\ UNCHANGED <<store, db, lock, running, task, aiEnabled, nEvents, last,
                   push_url, dedupVars, storage, callVars, frontVars>>

\* line 759
NextCaseIncrement(t) ==
    /\ At(t, "L759")
    /\ Apply(t, Call(task[t], "increment_training", FALSE, "", "L760"),
             store[task[t].chat])

\* line 760
NextCaseEnsure(t) ==
    /\ At(t, "L760")
    /\ LET p == store[task[t].chat]
       IN  Apply(t, EnsureCasesTask(task[t], p, "L761"), EnsureCasesProgress(p))

\* mutant of NextCaseSent: the case before the new index is served
NextCaseSent_Previous(t) ==
    /\ At(t, "L761")
    /\ LET tr == task[t]
           p == store[tr.chat]
       IN  Apply(t, Fin(tr, << training_case_payload(p.skill, tr.next_idx - 1,
                                                     tr.chat, tr.cases) >>), p)

\* line 761
NextCaseSent(t) ==
    /\ At(t, "L761")
    /\ LET tr == task[t]
           p == store[tr.chat]
       IN  Apply(t, Fin(tr, << training_case_payload(p.skill, tr.next_idx,
                                                     tr.chat, tr.cases) >>), p)

\* line 765
RestartEnsure(t) ==
    /\ At(t, "L765")
    /\ LET p == store[task[t].chat]
       IN  Apply(t, EnsureCasesTask(task[t], p, "L650"), EnsureCasesProgress(p))

\* line 779
RetryEnsure(t) ==
    /\ At(t, "L779")
    /\ LET p == store[task[t].chat]
       IN  Apply(t, EnsureCasesTask(task[t], p, "L780"), EnsureCasesProgress(p))

\* lines 780-782
RetryCaseSent(t) ==
    /\ At(t, "L780")
    /\ LET tr == task[t]
           p == store[tr.chat]
       IN  Apply(t, Fin(tr, << training_case_payload(p.skill, p.training_index,
                                                     tr.chat, tr.cases) >>), p)

\* ------------------------------------------------------------------------
\* /ingest: events of type "text" (lines 786-920) and of any other type
\* ------------------------------------------------------------------------
DefaultSphere == "general"
DefaultSkillText == "another skill"

OrElse(s, default) == IF s = "" THEN default ELSE s

\* mutant of DispatchText: an awaited skill is taken although one is chosen
DispatchText_SkillAgain(t) ==
    /\ At(t, "L500")
    /\ task[t].ev.type = "text"
    /\ LET tr == task[t]
           c == tr.chat
           p == store[c]
           x == tr.ev.text
       IN  IF p.sphere_pending /\ ~p.sphere_chosen
               THEN Apply(t, Call(tr, "set_sphere", FALSE,
                                  OrElse(x, DefaultSphere), "L790"), p)
           ELSE IF p.skill_pending
               THEN Apply(t, Call(tr, "set_skill", FALSE,
                                  OrElse(Strip(x), DefaultSkillText), "L807"), p)
           ELSE IF p.training_case_pending
               THEN Apply(t, EnsureCasesTask([tr EXCEPT !.case_idx = p.training_index],
                                             p, "L838"),
                          EnsureCasesProgress(p))
           ELSE Apply(t, Fin(tr, << NeutralMessage(c) >>), p)

\* lines 786-806, 835 and 920
DispatchText(t) ==
    /\ At(t, "L500")
    /\ task[t].ev.type = "text"
    /\ LET tr == task[t]
           c == tr.chat
           p == store[c]
           x == tr.ev.text
       IN  IF p.sphere_pending /\ ~p.sphere_chosen
               THEN Apply(t, Call(tr, "set_sphere", FALSE,
                                  OrElse(x, DefaultSphere), "L790"), p)
           ELSE IF p.skill_pending /\ ~p.skill_chosen
               THEN Apply(t, Call(tr, "set_skill", FALSE,
                                  OrElse(Strip(x), DefaultSkillText), "L807"), p)
           ELSE IF p.training_case_pending
               THEN Apply(t, EnsureCasesTask([tr EXCEPT !.case_idx = p.training_index],
                                             p, "L838"),
                          EnsureCasesProgress(p))
           ELSE Apply(t, Fin(tr, << NeutralMessage(c) >>), p)

\* mutant of DispatchOther: the event is answered with no action
DispatchOther_Silent(t) ==
    /\ At(t, "L500")
    /\ task[t].ev.type \notin {"action", "callback", "text"}
    /\ Apply(t, Fin(task[t], <<>>), store[task[t].chat])

\* line 922
DispatchOther(t) ==
    /\ At(t, "L500")
    /\ task[t].ev.type \notin {"action", "callback", "text"}
    /\ Apply(t, Fin(task[t], << EventAck(task[t].chat) >>), store[task[t].chat])

\* lines 790-803: early return after set_sphere
SphereSetReturned(t) ==
    /\ At(t, "L790")
    /\ Apply(t, Ret(task[t], << SphereSetMessage(task[t].chat, task[t].ev.text) >>),
             store[task[t].chat])

\* line 807
SkillSetReload(t) ==
    /\ At(t, "L807")
    /\ Apply(t, Call(task[t], "get", FALSE, "", "L808"), store[task[t].chat])

\* line 808
SkillSetPending(t) ==
    /\ At(t, "L808")
    /\ Apply(t, Call(task[t], "set_training_pending", TRUE, "", "L809"),
             store[task[t].chat])

\* lines 809-810
SkillSetReset(t) ==
    /\ At(t, "L809")
    /\ Apply(t, [task[t] EXCEPT !.pc = "L811"],
             [store[task[t].chat] EXCEPT !.training_index = 0,
                                         !.training_cases = <<>>])

\* line 811
SkillSetEnsure(t) ==
    /\ At(t, "L811")
    /\ LET p == store[task[t].chat]
       IN  Apply(t, EnsureCasesTask(task[t], p, "L812"), EnsureCasesProgress(p))

\* lines 812-833: early return with the first case of the new skill
SkillSetReturned(t) ==
    /\ At(t, "L812")
    /\ LET tr == task[t]
           p == store[tr.chat]
       IN  Apply(t,
             Ret(tr, << PreparingMessage(tr.chat),
                        IF tr.cases # <<>>
                        THEN training_case_payload(p.skill, 0, tr.chat, tr.cases)
                        ELSE NoCasesMessage(tr.chat) >>),
             p)

\* evaluate_answer and the feedback action; a good verdict clears the pending
\* flag through set_training_pending(False) before the response is built
Heuristic(t, tr, p, fallback) ==
    IF AnswerIsGood(tr.ev.text)
    THEN \E fb \in GoodFeedback :
            Apply(t, Call([tr EXCEPT !.actions =
                              Append(@, IF fallback
                                        THEN HeuristicFeedbackFallback(tr.chat, TRUE, fb)
                                        ELSE HeuristicFeedback(tr.chat, TRUE, fb))],
                          "set_training_pending", FALSE, "", "L924"), p)
    ELSE Apply(t, Fin(tr, Append(tr.actions,
                          IF fallback
                          THEN HeuristicFeedbackFallback(tr.chat, FALSE, WeakFeedback)
                          ELSE HeuristicFeedback(tr.chat, FALSE, WeakFeedback))), p)

\* lines 838-843 and 889-906: the case answered; AI call or heuristic verdict
AnswerEvaluate(t) ==
    /\ At(t, "L838")
    /\ LET tr == task[t]
           p == store[tr.chat]
           case_text == IF tr.case_idx < Len(tr.cases)
                        THEN tr.cases[tr.case_idx + 1]
                        ELSE get_case(p.skill, tr.case_idx)
           tr1 == [tr EXCEPT !.case_text = case_text]
       IN  IF aiEnabled
           THEN Apply(t, [tr1 EXCEPT !.pc = "ai_build"], p)
           ELSE Heuristic(t, tr1, p, FALSE)

\* lines 924-935 reached after set_training_pending(False)
AnswerSent(t) ==
    /\ At(t, "L924")
    /\ Apply(t, Fin(task[t], task[t].actions), store[task[t].chat])

\* ------------------------------------------------------------------------
\* The awaited AI calls come back
\* ------------------------------------------------------------------------
Resumes(t, label) == running = NoTask /\ task[t].pc = label

ReturnedOr(o, empty) == IF o.kind = "returned" THEN o.value ELSE empty

\* mutant of GeneratedCases: a list stored meanwhile by another task is kept
GeneratedCases_KeepExisting(p, o, skill) ==
    IF p.training_cases # <<>> THEN p
    ELSE [p EXCEPT !.training_cases = CasesOrStatic(ReturnedOr(o, <<>>), skill)]

\* ensure_training_cases, lines 199-206: the result of the call is assigned to
\* state.training_cases, the static catalog when it is empty or the call raised
GeneratedCases(p, o, skill) ==
    [p EXCEPT !.training_cases = CasesOrStatic(ReturnedOr(o, <<>>), skill)]

CasesGenerated(t) ==
    \E o \in GenerateCasesOutcomes :
        /\ Resumes(t, "ai_cases")
        /\ LET tr == task[t]
               p == GeneratedCases(store[tr.chat], o, tr.skill)
           IN  Apply(t, [tr EXCEPT !.pc = tr.cont, !.got = ReturnedOr(o, <<>>),
                                    !.cases = p.training_cases], p)

\* ensure_diagnostic_questions, lines 178-191: with the AI enabled there is no
\* static fallback
QuestionsGenerated(t) ==
    \E o \in GenerateDiagnosticOutcomes :
        /\ Resumes(t, "ai_diag")
        /\ LET tr == task[t]
               qs == ReturnedOr(o, <<>>)
           IN  Apply(t, [tr EXCEPT !.pc = "L594", !.questions = qs],
                     [store[tr.chat] EXCEPT !.diagnostic_questions = qs])

\* lines 736-756
SummaryGenerated(t) ==
    \E o \in SummarizeOutcomes :
        /\ Resumes(t, "ai_summary")
        /\ LET tr == task[t]
           IN  Apply(t, Fin(tr, << DiagnosticDoneMessage(
                                      tr.chat, ReturnedOr(o, tr.summary)) >>),
                     store[tr.chat])

NavigationButtons == <<"action:start", "action:skill:feedback">>

\* lines 853-866: chat_id is overwritten, the navigation rows are appended
Decorate(acts, chat) ==
    [i \in 1..Len(acts) |->
        [acts[i] EXCEPT !.chat_id = chat,
                        !.keyboard = @ \o NavigationButtons]]

AISaysNext(acts) ==
    \E i \in 1..Len(acts) : \E b \in 1..Len(acts[i].keyboard) :
        StartsWith(acts[i].keyboard[b], "case:next")

\* lines 845-888
AnswerJudged(t) ==
    \E o \in BuildActionsOutcomes :
        /\ Resumes(t, "ai_build")
        /\ LET tr == task[t]
               p == store[tr.chat]
               acts == Decorate(o.value, tr.chat)
               tr1 == [tr EXCEPT !.actions = @ \o acts]
           IN  IF o.kind = "returned"
               THEN IF AISaysNext(acts)
                    THEN Apply(t, Call(tr1, "set_training_pending", FALSE, "", "L924"), p)
                    ELSE Apply(t, Fin(tr1, tr1.actions), p)
               ELSE Heuristic(t, [tr EXCEPT !.fallback = TRUE], p, TRUE)

\* ------------------------------------------------------------------------
\* The process is restarted between requests: the cache is lost, the
\* database stays
\* ------------------------------------------------------------------------
Restart ==
    /\ running = NoTask
    /\ \A t \in Tasks : ~InFlight(t)
    /\ \E c \in Chats : store[c] # NoRec
    /\ store' = [c \in Chats |-> NoRec]
    /\ task' = [t \in Tasks |-> IdleTask]
    /\ last' = NoLast
    \* the reminder tasks live in the event loop of the process
    /\ reminders' = NoReminders
    /\ UNCHANGED <<db, lock, running, aiEnabled, nEvents, push_url, dedupVars, storage, callVars, frontVars>>

\* ------------------------------------------------------------------------
\* Specification of the engine
\* ------------------------------------------------------------------------
\* a conversation of an earlier process life: sphere and skill chosen, the
\* first case answered well
TrainedProgress ==
    [DefaultProgress EXCEPT !.sphere = "it", !.sphere_chosen = TRUE,
                            !.skill = "qa", !.skill_chosen = TRUE,
                            !.training_cases = TRAINING_CASES_IDP]

InitialRows == {NoRec, ToRow(TrainedProgress)}

Init ==
    /\ EngineInit
    /\ db \in [Chats -> InitialRows]
    /\ aiEnabled \in BOOLEAN
    /\ input = <<>>
    /\ output = <<>>

Next ==
    \/ \E t \in Tasks :
        \/ Receive(t)
        \/ Acquire(t)
        \/ Get(t)
        \/ ResetDiagnostic(t)
        \/ IncrementTraining(t)
        \/ SetSkill(t)
        \/ SetSkillPending(t)
        \/ SetSphere(t)
        \/ SetSpherePending(t)
        \/ SetTrainingPending(t)
        \/ DispatchAction(t)
        \/ SpherePromptSent(t)
        \/ SphereChosenSent(t)
        \/ DiagnosticStartReload(t)
        \/ DiagnosticStartCheck(t)
        \/ SpherePromptReturned(t)
        \/ DiagnosticStartAnswer(t)
        \/ SkillPromptReturned(t)
        \/ TrainingStartReset(t)
        \/ TrainingStartEnsure(t)
        \/ FirstCaseSent(t)
        \/ SkillPromptSent(t)
        \/ DispatchCallback(t)
        \/ NextCaseIncrement(t)
        \/ NextCaseEnsure(t)
        \/ NextCaseSent(t)
        \/ RestartEnsure(t)
        \/ RetryEnsure(t)
        \/ RetryCaseSent(t)
        \/ DispatchText(t)
        \/ DispatchOther(t)
        \/ SphereSetReturned(t)
        \/ SkillSetReload(t)
        \/ SkillSetPending(t)
        \/ SkillSetReset(t)
        \/ SkillSetEnsure(t)
        \/ SkillSetReturned(t)
        \/ AnswerEvaluate(t)
        \/ AnswerSent(t)
        \/ CasesGenerated(t)
        \/ QuestionsGenerated(t)
        \/ SummaryGenerated(t)
        \/ AnswerJudged(t)
        \/ ReminderScheduled(t)
    \/ ReminderStarts
    \/ ReminderPushes
    \/ Restart

Spec == Init /\ [][Next]_vars

\* ------------------------------------------------------------------------
\* Specification of dedup_actions alone: any list of up to MaxActs actions
\* ------------------------------------------------------------------------
DedupChats == {1, 2}
DedupTexts == {"a", "__other__"}
DedupParseModes == {"HTML", "0"}
DedupKeyboards == {NoKeyboard, <<"case:next">>, <<"case:retry">>}

DedupInputs ==
    { [type |-> "send_message", chat_id |-> c, text |-> t,
       parse_mode |-> p, keyboard |-> k] :
         c \in DedupChats, t \in DedupTexts, p \in DedupParseModes,
         k \in DedupKeyboards }
    \cup
    { [type |-> "typing", chat_id |-> c, text |-> "",
       parse_mode |-> "HTML", keyboard |-> NoKeyboard] : c \in DedupChats }

InitDedup ==
    /\ EngineInit
    /\ db = [c \in Chats |-> NoRec]
    /\ aiEnabled = FALSE
    /\ input = <<>>
    /\ output = <<>>

CallDedup ==
    \E act \in DedupInputs :
        /\ Len(input) < MaxActs
        /\ input' = Append(input, act)
        /\ output' = dedup_actions(input')
        /\ UNCHANGED <<engineVars, callVars, frontVars>>

NextDedup == CallDedup

SpecDedup == InitDedup /\ [][NextDedup]_vars

\* ------------------------------------------------------------------------
\* Properties of dedup_actions (checked under SpecDedup)
\* ------------------------------------------------------------------------
IsMsg(act) == act.type = "send_message"

\* the merge key the design document names: (recipient, exact text)
RecipientKey(act) == <<act.chat_id, act.text>>

MsgIdx(seq) == {i \in 1..Len(seq) : IsMsg(seq[i])}

OutWithRecipientKey(k) == {j \in MsgIdx(output) : RecipientKey(output[j]) = k}

OutWithMergeKey(k) == {j \in MsgIdx(output) : MergeKey(output[j]) = k}

Occurrences(seq, act) == Cardinality({i \in 1..Len(seq) : seq[i] = act})

\* C2 (as claimed): dedup_actions emits exactly one send_message action per
\* distinct (chat_id, text) key among its input message actions and none for
\* a key that does not occur.
C2_OnePerRecipientKey ==
    /\ \A i \in MsgIdx(input) :
           Cardinality(OutWithRecipientKey(RecipientKey(input[i]))) = 1
    /\ \A j \in MsgIdx(output) :
           \E i \in MsgIdx(input) : RecipientKey(input[i]) = RecipientKey(output[j])

\* C3 (as claimed): when at least two input messages share a (chat_id, text)
\* key and exactly one of them carries a keyboard, the output holds exactly
\* one action for that key and it is the one carrying the keyboard.
C3_KeyboardPreferred ==
    \A i \in MsgIdx(input) :
        LET same == {j \in MsgIdx(input) :
                        RecipientKey(input[j]) = RecipientKey(input[i])}
            withKb == {j \in same : HasKeyboard(input[j])}
        IN  (Cardinality(same) >= 2 /\ withKb = {i})
            => /\ Cardinality(OutWithRecipientKey(RecipientKey(input[i]))) = 1
               /\ \A j \in OutWithRecipientKey(RecipientKey(input[i])) :
                      output[j] = input[i]

\* C4 (as claimed): when two input messages share a merge key and both carry
\* a keyboard, the action kept for the key is the later one.
C4_LastKeyboardWins ==
    \A i, j \in MsgIdx(input) :
        (/\ i < j
         /\ MergeKey(input[i]) = MergeKey(input[j])
         /\ HasKeyboard(input[i]) /\ HasKeyboard(input[j])
         /\ ~\E l \in MsgIdx(input) :
                l > j /\ MergeKey(input[l]) = MergeKey(input[j])
                      /\ HasKeyboard(input[l]))
        => \A o \in OutWithMergeKey(MergeKey(input[j])) : output[o] = input[j]

\* C4 (amended): for every (text, parse_mode) key under which some input
\* message carries a keyboard, the output holds exactly one message with that
\* key and it is the earliest keyboard-carrying input message with the key;
\* a later keyboard never replaces it (first write wins).
C4_FirstKeyboardWins ==
    \A i \in MsgIdx(input) :
        (/\ HasKeyboard(input[i])
         /\ ~\E l \in MsgIdx(input) :
                l < i /\ MergeKey(input[l]) = MergeKey(input[i])
                      /\ HasKeyboard(input[l]))
        => /\ Cardinality(OutWithMergeKey(MergeKey(input[i]))) = 1
           /\ \A o \in OutWithMergeKey(MergeKey(input[i])) : output[o] = input[i]

\* C4 witness: two messages with one merge key and two different keyboards
\* went through dedup_actions and the earlier one is the one returned.
C4_Witness ==
    \E i, j \in MsgIdx(input) :
        /\ i < j
        /\ MergeKey(input[i]) = MergeKey(input[j])
        /\ HasKeyboard(input[i]) /\ HasKeyboard(input[j])
        /\ input[i].keyboard # input[j].keyboard
        /\ \E o \in MsgIdx(output) : output[o] = input[i]
        /\ ~\E o \in MsgIdx(output) : output[o] = input[j]

\* C5 (as claimed): every input action that is not a send_message appears in
\* the output exactly as often as in the input, unmodified, and is never
\* replaced by another action.
C5_OthersPassThrough ==
    \A i \in 1..Len(input) :
        ~IsMsg(input[i])
        => Occurrences(output, input[i]) = Occurrences(input, input[i])

\* ------------------------------------------------------------------------
\* One diagnostic run: the conversation has its sphere, the user starts the
\* diagnostic and then presses answer buttons, one request after the other
\* ------------------------------------------------------------------------
ActionEvent(a) == [type |-> "action", action |-> a, data |-> "", text |-> ""]
CallbackEvent(d) == [type |-> "callback", action |-> "", data |-> d, text |-> ""]
TextEvent(x) == [type |-> "text", action |-> "", data |-> "", text |-> x]

Quiet == \A t \in Tasks : ~InFlight(t)

\* a conversation of an earlier process life: sphere chosen, the static
\* diagnostic answered to the end, then the skill prompt asked for
DiagnosedProgress ==
    [DefaultProgress EXCEPT !.sphere = "it", !.sphere_chosen = TRUE,
                            !.diagnostic_answers = <<"diag:0:0", "diag:0:0">>,
                            !.diagnostic_done = TRUE,
                            !.diagnostic_questions = DIAGNOSTIC_QUESTIONS,
                            !.skill_pending = TRUE]

DiagRows == {ToRow(TrainedProgress), ToRow(DiagnosedProgress)}

InitDiag ==
    /\ EngineInit
    /\ db \in [Chats -> DiagRows]
    /\ aiEnabled \in BOOLEAN
    /\ input = <<>>
    /\ output = <<>>

ReceiveDiag(t) ==
    /\ Quiet
    /\ ReceiveFrom(t, IF nEvents = 0 THEN {ActionEvent("diagnostic:start")}
                      ELSE {CallbackEvent("diag:0:0")},
                   MaxDiagEvents)

NextDiag ==
    \E t \in Tasks :
        \/ ReceiveDiag(t)
        \/ Acquire(t)
        \/ Get(t)
        \/ ResetDiagnostic(t)
        \/ DispatchAction(t)
        \/ DiagnosticStartReload(t)
        \/ DiagnosticStartCheck(t)
        \/ DiagnosticStartAnswer(t)
        \/ DispatchCallback(t)
        \/ QuestionsGenerated(t)
        \/ SummaryGenerated(t)

SpecDiag == InitDiag /\ [][NextDiag]_vars

\* C11 (as claimed): after the diagnostic was started and while answers are
\* appended one callback at a time, diagnostic_done is true exactly when there
\* are as many answers as questions, and before that each diag: callback
\* is answered with the question whose index is the number of answers so far.
C11_DoneIffAllAnswered ==
    (Quiet /\ last.ev.type # "none" /\ store[1].diagnostic_questions # <<>>)
    => LET p == store[1]
           n == Len(p.diagnostic_answers)
           qs == p.diagnostic_questions
       IN  /\ p.diagnostic_done <=> (n = Len(qs))
           /\ (last.ev.type = "callback" /\ n < Len(qs))
              => last.result.actions
                    = << diagnostic_question_payload(n, Len(qs), 1, qs[n + 1]) >>

\* ------------------------------------------------------------------------
\* Answer turns: the conversation has a pending case and the user sends
\* texts, one request after the other
\* ------------------------------------------------------------------------
MaxAnswerEvents == 2  \* text events of one run

\* a conversation of an earlier process life: as TrainedProgress, then
\* case:next served the second case
AdvancedProgress ==
    [TrainedProgress EXCEPT !.training_index = 1,
                            !.training_case_pending = TRUE]

InitAnswer ==
    /\ EngineInit
    /\ db = [c \in Chats |-> ToRow(AdvancedProgress)]
    /\ aiEnabled \in BOOLEAN
    /\ input = <<>>
    /\ output = <<>>

ReceiveAnswer(t) ==
    /\ Quiet
    /\ ReceiveFrom(t, {TextEvent(x) : x \in Texts}, MaxAnswerEvents)

NextAnswer ==
    \E t \in Tasks :
        \/ ReceiveAnswer(t)
        \/ Acquire(t)
        \/ Get(t)
        \/ SetTrainingPending(t)
        \/ DispatchText(t)
        \/ AnswerEvaluate(t)
        \/ AnswerJudged(t)
        \/ AnswerSent(t)

SpecAnswer == InitAnswer /\ [][NextAnswer]_vars

\* ------------------------------------------------------------------------
\* The two Content Provider functions called on their own, one call after
\* the other, on records with and without content
\* ------------------------------------------------------------------------
MaxEnsureCalls == 3

\* a conversation that has only chosen its sphere
SphereOnlyProgress ==
    [DefaultProgress EXCEPT !.sphere = "it", !.sphere_chosen = TRUE]

EnsureRecords == {SphereOnlyProgress, TrainedProgress, DiagnosedProgress}

InitEnsure ==
    /\ \E r \in EnsureRecords :
          /\ store = [c \in Chats |-> r]
          /\ db = [c \in Chats |-> ToRow(r)]
    /\ lock = NoTask
    /\ running = NoTask
    /\ task = [t \in Tasks |-> IdleTask]
    /\ nEvents = 0
    /\ last = NoLast
    /\ reminders = NoReminders
    /\ push_url = PushUrlUnread
    /\ storage = "up"
    /\ NoCall
    /\ FrontIdle
    /\ aiEnabled \in BOOLEAN
    /\ input = <<>>
    /\ output = <<>>

\* cases = await ensure_training_cases(state, state.skill, ...)
EnsureCasesCall(t) ==
    /\ Quiet
    /\ t = 1
    /\ nEvents < MaxEnsureCalls
    /\ nEvents' = nEvents + 1
    /\ LET p == store[1]
           tr == [IdleTask EXCEPT !.ev = ActionEvent("training:start"),
                                  !.solo = TRUE, !.before = p]
       IN  /\ store' = [store EXCEPT ![1] = EnsureCasesProgress(p)]
           /\ task' = [task EXCEPT ![t] = EnsureCasesTask(tr, p, "L650")]
           /\ running' = IF NeedsCasesCall(p) THEN NoTask ELSE t
    /\ UNCHANGED <<db, lock, aiEnabled, last, dedupVars, reminderVars, storage, callVars, frontVars>>

\* questions = await ensure_diagnostic_questions(state, ...)
EnsureQuestionsCall(t) ==
    /\ Quiet
    /\ t = 1
    /\ nEvents < MaxEnsureCalls
    /\ nEvents' = nEvents + 1
    /\ LET p == store[1]
           q == EnsureDiagProgress(p)
           tr == [IdleTask EXCEPT !.ev = ActionEvent("diagnostic:start"),
                                  !.solo = TRUE, !.before = p]
       IN  /\ store' = [store EXCEPT ![1] = q]
           /\ task' = [task EXCEPT ![t] =
                          IF NeedsDiagCall(p)
                          THEN [tr EXCEPT !.pc = "ai_diag"]
                          ELSE [tr EXCEPT !.pc = "L594",
                                          !.questions = q.diagnostic_questions]]
           /\ running' = IF NeedsDiagCall(p) THEN NoTask ELSE t
    /\ UNCHANGED <<db, lock, aiEnabled, last, dedupVars, reminderVars, storage, callVars, frontVars>>

NextEnsure ==
    \E t \in Tasks :
        \/ EnsureCasesCall(t)
        \/ EnsureQuestionsCall(t)
        \/ CasesGenerated(t)
        \/ QuestionsGenerated(t)
        \/ FirstCaseSent(t)
        \/ DiagnosticStartAnswer(t)

SpecEnsure == InitEnsure /\ [][NextEnsure]_vars

\* ------------------------------------------------------------------------
\* The store over a database whose writes may fail: a fresh or a trained
\* conversation, no generator, the events that reach every setter
\* ------------------------------------------------------------------------
MaxStorageEvents == 3

StorageEvents ==
    {ActionEvent("training:start"), ActionEvent("diagnostic:start"),
     ActionEvent("skill:feedback"), CallbackEvent("case:next"), TextEvent("qa"),
     TextEvent("concrete actions")}

InitStorage ==
    /\ store = [c \in Chats |-> NoRec]
    /\ db \in [Chats -> InitialRows]
    /\ lock = NoTask
    /\ running = NoTask
    /\ task = [t \in Tasks |-> IdleTask]
    /\ nEvents = 0
    /\ last = NoLast
    /\ reminders = NoReminders
    /\ push_url = PushUrlUnread
    /\ storage = "failing"
    /\ NoCall
    /\ FrontIdle
    /\ aiEnabled = FALSE
    /\ input = <<>>
    /\ output = <<>>

ReceiveStorage(t) == ReceiveFrom(t, StorageEvents, MaxStorageEvents)

NextStorage ==
    \E t \in Tasks :
        \/ ReceiveStorage(t)
        \/ Acquire(t)
        \/ Get(t)
        \/ ResetDiagnostic(t)
        \/ IncrementTraining(t)
        \/ SetSkill(t)
        \/ SetSkillPending(t)
        \/ SetSphere(t)
        \/ SetSpherePending(t)
        \/ SetTrainingPending(t)
        \/ DispatchAction(t)
        \/ DiagnosticStartReload(t)
        \/ DiagnosticStartCheck(t)
        \/ SpherePromptReturned(t)
        \/ DiagnosticStartAnswer(t)
        \/ SkillPromptReturned(t)
        \/ TrainingStartReset(t)
        \/ TrainingStartEnsure(t)
        \/ FirstCaseSent(t)
        \/ SkillPromptSent(t)
        \/ DispatchCallback(t)
        \/ NextCaseIncrement(t)
        \/ NextCaseEnsure(t)
        \/ NextCaseSent(t)
        \/ DispatchText(t)
        \/ SphereSetReturned(t)
        \/ SkillSetReload(t)
        \/ SkillSetPending(t)
        \/ SkillSetReset(t)
        \/ SkillSetEnsure(t)
        \/ SkillSetReturned(t)
        \/ AnswerEvaluate(t)
        \/ AnswerSent(t)

SpecStorage == InitStorage /\ [][NextStorage]_vars

\* ------------------------------------------------------------------------
\* evaluate_answer called on its own: answers of up to MaxFillerWords plain
\* words followed by up to MaxTailTokens tokens of any kind
\* ------------------------------------------------------------------------
MaxFillerWords == 12
MaxTailTokens == 3

AnswerTokens == {Blank, "ok", "Concrete", "concretely", "actions"}

RECURSIVE Filler(_)
Filler(n) == IF n = 0 THEN <<>> ELSE <<"ok", Blank>> \o Filler(n - 1)

AnswerInputs ==
    {Filler(n) \o tail :
        n \in 0..MaxFillerWords,
        tail \in UNION {[1..k -> AnswerTokens] : k \in 0..MaxTailTokens}}

\* everything but the call is at rest
EngineIdle ==
    /\ store = [c \in Chats |-> NoRec]
    /\ db = [c \in Chats |-> NoRec]
    /\ lock = NoTask
    /\ running = NoTask
    /\ task = [t \in Tasks |-> IdleTask]
    /\ nEvents = 0
    /\ last = NoLast
    /\ reminders = NoReminders
    /\ push_url = PushUrlUnread
    /\ storage = "up"
    /\ aiEnabled = FALSE
    /\ input = <<>>
    /\ output = <<>>
    /\ FrontIdle

InitEvaluate ==
    /\ EngineIdle
    /\ arg \in AnswerInputs
    /\ ret = NoValue

CallEvaluate ==
    /\ ret = NoValue
    /\ ret' \in evaluate_answer(arg)
    /\ UNCHANGED <<arg, engineVars, dedupVars, frontVars>>

NextEvaluate == CallEvaluate

SpecEvaluate == InitEvaluate /\ [][NextEvaluate]_vars

\* ------------------------------------------------------------------------
\* training_case_payload called on its own: every list of up to
\* MaxCaseCount cases, every index up to MaxCaseIndex
\* ------------------------------------------------------------------------
MaxCaseCount == 5
MaxCaseIndex == 6

PayloadInputs ==
    {[idx |-> i, cases |-> cs] :
        i \in 0..MaxCaseIndex,
        cs \in UNION {[1..k -> {"f1", "f2"}] : k \in 0..MaxCaseCount}}

InitPayload ==
    /\ EngineIdle
    /\ arg \in PayloadInputs
    /\ ret = NoValue

CallPayload ==
    /\ ret = NoValue
    /\ ret' = training_case_payload("feedback", arg.idx, 1, arg.cases)
    /\ UNCHANGED <<arg, engineVars, dedupVars, frontVars>>

NextPayload == CallPayload

SpecPayload == InitPayload /\ [][NextPayload]_vars

\* ------------------------------------------------------------------------
\* Front end (src/main.py): the in-flight gate of the text and voice handlers
\* ------------------------------------------------------------------------
\* every update is handled in a task of its own (asyncio.create_task(process())
\* at line 1735), so handlers of one chat interleave at their awaits; the
\* bodies under pending_lock have no await and are single steps
UpdateKinds == {"text", "voice", "callback"}

\* lines 880-885: the answer and the set after the call
try_set_pending(chat_id) ==
    IF chat_id \in pending_chats
    THEN [ok |-> FALSE, chats |-> pending_chats]
    ELSE [ok |-> TRUE, chats |-> pending_chats \cup {chat_id}]

\* lines 887-890
clear_pending(chat_id) == pending_chats \ {chat_id}

\* the handler returns: how it ended is all that is kept of the run
Exit(h, how) ==
    handler' = [handler EXCEPT ![h] = [IdleHandler EXCEPT !.how = how]]

\* the handler moves on to the await at pc
Goto(h, pc) == handler' = [handler EXCEPT ![h].pc = pc]

\* `finally: await clear_pending(message.chat.id)` (lines 1176-1177, 1220-1221)
Finally(h, how) ==
    /\ pending_chats' = clear_pending(handler[h].chat)
    /\ Exit(h, how)

FrontStep == UNCHANGED <<engineVars, dedupVars, callVars, webhookVars>>

\* dp.feed_update starts the handler the update's kind selects
UpdateArrives(h) ==
    /\ handler[h].pc = "idle"
    /\ \E k \in UpdateKinds, c \in GateChats :
          handler' = [handler EXCEPT ![h] =
                         [IdleHandler EXCEPT !.pc = "entered", !.kind = k, !.chat = c]]
    /\ UNCHANGED pending_chats
    /\ FrontStep

\* handle_text, lines 1181-1193: a text of a block-2 dialogue or a command
\* leaves at once, any other goes through try_set_pending
TextEnters(h) ==
    /\ handler[h].pc = "entered" /\ handler[h].kind = "text"
    /\ \E plain \in BOOLEAN :
          IF ~plain
          THEN Exit(h, "skipped") /\ UNCHANGED pending_chats
          ELSE LET r == try_set_pending(handler[h].chat)
               IN  /\ pending_chats' = r.chats
                   /\ Goto(h, IF r.ok THEN "loading" ELSE "rejected")
    /\ FrontStep

\* handle_voice, lines 1114-1122
VoiceEnters(h) ==
    /\ handler[h].pc = "entered" /\ handler[h].kind = "voice"
    /\ LET r == try_set_pending(handler[h].chat)
       IN  /\ pending_chats' = r.chats
           /\ Goto(h, IF r.ok THEN "download" ELSE "rejected")
    /\ FrontStep

\* lines 1117-1122 and 1188-1193: the optional notice, then return
RejectedReturns(h) ==
    /\ handler[h].pc = "rejected"
    /\ Exit(h, "rejected")
    /\ UNCHANGED pending_chats
    /\ FrontStep

\* lines 1196-1202: the loading message, sent or not
LoadingSent(h) ==
    /\ handler[h].pc = "loading"
    /\ Goto(h, "backend")
    /\ UNCHANGED pending_chats
    /\ FrontStep

\* line 1125: download_voice returns or raises
VoiceDownloaded(h) ==
    /\ handler[h].pc = "download"
    /\ \E raised \in BOOLEAN :
          IF raised
          THEN Finally(h, "download_failed")
          ELSE Goto(h, "transcribe") /\ UNCHANGED pending_chats
    /\ FrontStep

\* lines 1128-1150: transcribe returns or raises
VoiceTranscribed(h) ==
    /\ handler[h].pc = "transcribe"
    /\ \E raised \in BOOLEAN : Goto(h, IF raised THEN "asr_error" ELSE "backend")
    /\ UNCHANGED pending_chats
    /\ FrontStep

\* mutant of AsrErrorSent: the handler returns past its finally
AsrErrorSent_KeepsMark(h) ==
    /\ handler[h].pc = "asr_error"
    /\ Exit(h, "asr_failed")
    /\ UNCHANGED pending_chats
    /\ FrontStep

\* lines 1143-1148: the 'could not recognise' message, then return
AsrErrorSent(h) ==
    /\ handler[h].pc = "asr_error"
    /\ Finally(h, "asr_failed")
    /\ FrontStep

\* lines 1170-1174 and 1214-1218: send_to_backend returns the response, or
\* None when the request failed (lines 901-906)
BackendReturns(h) ==
    /\ handler[h].pc = "backend"
    /\ \E resp \in {"actions", "none"} :
          handler' = [handler EXCEPT ![h].pc = "answer", ![h].resp = resp]
    /\ UNCHANGED pending_chats
    /\ FrontStep

\* lines 1175 and 1219: answer_backend returns or raises
HandlerAnswers(h) ==
    /\ handler[h].pc = "answer"
    /\ \E raised \in BOOLEAN :
          Finally(h, IF raised THEN "send_failed"
                     ELSE IF handler[h].resp = "none" THEN "backend_failed"
                     ELSE "answered")
    /\ FrontStep

\* handle_callback, lines 1225-1230 and on: dropped while the chat is marked,
\* else handled by the front end itself or forwarded
CallbackEnters(h) ==
    /\ handler[h].pc = "entered" /\ handler[h].kind = "callback"
    /\ IF handler[h].chat \in pending_chats
       THEN Exit(h, "dropped")
       ELSE \E local \in BOOLEAN :
               IF local THEN Exit(h, "local") ELSE Goto(h, "cb_backend")
    /\ UNCHANGED pending_chats
    /\ FrontStep

\* lines 1660-1674: the callback's request to the backend and its answer
CallbackAnswered(h) ==
    /\ handler[h].pc = "cb_backend"
    /\ Exit(h, "answered")
    /\ UNCHANGED pending_chats
    /\ FrontStep

InitGate ==
    /\ EngineIdle
    /\ NoCall

NextGate ==
    \E h \in Handlers :
        \/ UpdateArrives(h)
        \/ TextEnters(h)
        \/ VoiceEnters(h)
        \/ CallbackEnters(h)
        \/ RejectedReturns(h)
        \/ LoadingSent(h)
        \/ VoiceDownloaded(h)
        \/ VoiceTranscribed(h)
        \/ AsrErrorSent(h)
        \/ BackendReturns(h)
        \/ HandlerAnswers(h)
        \/ CallbackAnswered(h)

SpecGate == InitGate /\ [][NextGate]_vars

\* ------------------------------------------------------------------------
\* Front end (src/main.py): UpdateDeduplicator and the webhook handler
\* ------------------------------------------------------------------------
\* UpdateDeduplicator(max_size): 2048 in the program, scaled down
max_size == 2
MaxUpdateId == 4
MaxUpdates == 5
UpdateIds == 1..MaxUpdateId

\* mutant of is_duplicate: the evicted id stays in _seen
is_duplicate_KeepsSeen(update_id) ==
    IF update_id \in seen
    THEN [dup |-> TRUE, seen |-> seen, queue |-> queue]
    ELSE LET full == Len(queue) >= max_size
         IN  [dup |-> FALSE,
              seen |-> seen \cup {update_id},
              queue |-> Append(IF full THEN Tail(queue) ELSE queue, update_id)]

\* lines 59-68, the body under self._lock (no await inside): the answer and
\* the two collections after the call
is_duplicate(update_id) ==
    IF update_id \in seen
    THEN [dup |-> TRUE, seen |-> seen, queue |-> queue]
    ELSE LET full == Len(queue) >= max_size
         IN  [dup |-> FALSE,
              seen |-> (IF full THEN seen \ {Head(queue)} ELSE seen)
                          \cup {update_id},
              queue |-> Append(IF full THEN Tail(queue) ELSE queue, update_id)]

\* lines 1725-1736: a valid update is dropped as a duplicate or handed to
\* the dispatcher in a task of its own; arg is the update id, ret the answer
\* of is_duplicate
WebhookHandler ==
    /\ Len(dispatched) < MaxUpdates
    /\ \E u \in UpdateIds :
          LET r == is_duplicate(u)
          IN  /\ arg' = u
              /\ ret' = r.dup
              /\ seen' = r.seen
              /\ queue' = r.queue
              /\ dispatched' = IF r.dup THEN dispatched ELSE Append(dispatched, u)
    /\ UNCHANGED <<engineVars, dedupVars, gateVars>>

InitWebhook ==
    /\ EngineIdle
    /\ NoCall

NextWebhook == WebhookHandler

SpecWebhook == InitWebhook /\ [][NextWebhook]_vars

\* ------------------------------------------------------------------------
\* Front end (src/utils.py): chunk_text, called on its own
\* ------------------------------------------------------------------------
\* a text is the sequence of its characters
MaxTextLen == 5
MaxLimit == 4
NL == "\n"
Chars == {"a", NL}

\* text.split("\n\n") from position i on: para is the paragraph being read,
\* out the paragraphs closed so far
RECURSIVE SplitParagraphs(_, _, _, _)
SplitParagraphs(text, i, para, out) ==
    IF i > Len(text) THEN Append(out, para)
    ELSE IF i < Len(text) /\ text[i] = NL /\ text[i + 1] = NL
         THEN SplitParagraphs(text, i + 2, <<>>, Append(out, para))
         ELSE SplitParagraphs(text, i + 1, Append(para, text[i]), out)

\* "\n\n".join(current)
RECURSIVE JoinParagraphs(_)
JoinParagraphs(current) ==
    IF current = <<>> THEN <<>>
    ELSE IF Len(current) = 1 THEN current[1]
    ELSE current[1] \o <<NL, NL>> \o JoinParagraphs(Tail(current))

\* lines 15-22 with the `if chunk: yield chunk` that follows every call: the
\* chunks yielded so far, after the flush
Flushed(current, out) ==
    IF current = <<>> THEN out
    ELSE LET chunk == JoinParagraphs(current)
         IN  IF chunk # <<>> THEN Append(out, chunk) ELSE out

\* lines 32-36: the hard split of a paragraph longer than the limit
RECURSIVE HardSplit(_, _, _, _)
HardSplit(para, limit, start, out) ==
    IF start >= Len(para) THEN out
    ELSE LET end == IF Len(para) < start + limit THEN Len(para) ELSE start + limit
         IN  HardSplit(para, limit, end, Append(out, SubSeq(para, start + 1, end)))

\* lines 24-51: the loop over the paragraphs and the last flush
RECURSIVE ChunkLoop(_, _, _, _, _)
ChunkLoop(paragraphs, limit, current, current_len, out) ==
    IF paragraphs = <<>> THEN Flushed(current, out)
    ELSE LET para == Head(paragraphs)
             para_len == Len(para)
             rest == Tail(paragraphs)
         IN  IF para_len > limit
             THEN ChunkLoop(rest, limit, <<>>, 0,
                            HardSplit(para, limit, 0, Flushed(current, out)))
             ELSE IF current_len + (IF current # <<>> THEN 2 ELSE 0) + para_len <= limit
             THEN ChunkLoop(rest, limit, Append(current, para),
                            current_len + (IF current_len # 0 THEN 2 ELSE 0) + para_len,
                            out)
             ELSE ChunkLoop(rest, limit, <<para>>, para_len, Flushed(current, out))

\* list(chunk_text(text, limit)), as send_chunks takes it
chunk_text(text, limit) ==
    ChunkLoop(SplitParagraphs(text, 1, <<>>, <<>>), limit, <<>>, 0, <<>>)

ChunkInputs ==
    [text : UNION {[1..n -> Chars] : n \in 0..MaxTextLen}, limit : 1..MaxLimit]

InitChunk ==
    /\ EngineIdle
    /\ arg \in ChunkInputs
    /\ ret = NoValue

CallChunk ==
    /\ ret = NoValue
    /\ ret' = [chunks |-> chunk_text(arg.text, arg.limit)]
    /\ UNCHANGED <<arg, engineVars, dedupVars, frontVars>>

NextChunk == CallChunk

SpecChunk == InitChunk /\ [][NextChunk]_vars

\* ------------------------------------------------------------------------
\* Properties of the engine and the store (checked under Spec)
\* ------------------------------------------------------------------------
\* task t answers its request in this step
Completes(t) == task[t].pc # "idle" /\ task'[t].pc = "idle"

\* the durable record of every conversation equals the cached one
Persisted == \A c \in Chats : store[c] # NoRec => Durable(c) = store[c]

\* C1 (as claimed): handling an event a second time right after the first
\* handling, nothing else in between, returns the same actions and leaves the
\* progress the first handling left.
C1_RedeliveryIdempotent ==
    [][\A t \in Tasks :
          (Completes(t) /\ task[t].retry)
          => /\ last'.result = last.result
             /\ last'.progress = last.progress]_vars

\* C6 (as claimed): whenever ingest returns a response, the durable record of
\* the conversation equals the in-memory record.
C6_PersistBeforeReturn ==
    [][\A t \in Tasks :
          (Completes(t) /\ last'.result.status = "ok") => Persisted']_vars

\* C7: at most one store operation is inside the mutex, its holder is the
\* task inside, and when a setter leaves the mutex the durable record equals
\* the in-memory record.
C7_MutexInv ==
    /\ Cardinality({t \in Tasks : task[t].pc = "locked"}) <= 1
    /\ \A t \in Tasks : (task[t].pc = "locked") <=> (lock = t)

C7_SetterAtomicity ==
    /\ []C7_MutexInv
    /\ [][\A t \in Tasks :
             (lock = t /\ lock' = NoTask /\ task[t].op.name # "get")
             => Persisted']_vars

\* C7 witness: a setter is inside the mutex while another event is in flight,
\* suspended in an AI call.
C7_Witness ==
    \E t, u \in Tasks :
        /\ t # u
        /\ task[t].pc = "locked" /\ lock = t
        /\ task[t].op.name \notin {"get", "none"}
        /\ task[u].pc \in AwaitPcs

\* ensure_training_cases resumes after generate_cases in this step
WritesCases(t) == task[t].pc = "ai_cases" /\ task'[t].pc # "ai_cases"

\* C8: the write after the awaited generate_cases is unconditional: the list
\* stored is the one this task's own call produced, whatever another task has
\* stored meanwhile (last write wins); only when the event ran alone is the
\* list it replaces the empty one it saw before the call.
C8_LastWriteWins ==
    [][\A t \in Tasks :
          WritesCases(t)
          => /\ store'[task[t].chat].training_cases
                    = CasesOrStatic(task'[t].got, task[t].skill)
             /\ task[t].solo => store[task[t].chat].training_cases = <<>>]_vars

\* C8 witness: two events of one conversation overlapped; the first one
\* answered with the first case of the list it generated, then the second one
\* stored its own, different list over it and is about to answer from that.
\* In either serial order the second event finds the list of the first and
\* generates nothing, so both answers would show one list.
C8_Witness ==
    \E t \in Tasks : \E mine, theirs \in {<<"g1">>, <<"h1", "h2">>} :
        /\ task[t].pc \in {"L650", "L761", "L780", "L812", "L838"}
        /\ ~task[t].solo
        /\ mine # theirs
        /\ task[t].got = mine
        /\ store[task[t].chat].training_cases = mine
        /\ ~last.solo
        /\ last.result.status = "ok"
        /\ \E i \in 1..Len(last.result.actions) :
               last.result.actions[i]
                   = training_case_payload("", 0, task[t].chat, theirs)

\* C9: a task suspended in an AI call does not hold the store mutex, and a
\* task that gets to a store operation finds the mutex free.
C9_NoLockAcrossAwait ==
    /\ \A t \in Tasks : task[t].pc \in AwaitPcs => lock # t
    /\ \A t \in Tasks : At(t, "acquire") => lock = NoTask

\* C9 witness: while one event is still suspended in its AI call, another
\* event that arrived later has gone through the store and been answered.
C9_Witness ==
    \E t \in Tasks :
        /\ task[t].pc \in AwaitPcs
        /\ ~task[t].solo
        /\ ~last.solo
        /\ last.result.status = "ok"
        /\ store[task[t].chat] # NoRec

\* C10 (as claimed): every event is answered with a non-empty action list and
\* no failure of an AI call leaves ingest as an error.
C10_NeverEmptyNeverFails ==
    /\ last.result.status # "error"
    /\ last.result.status = "ok" => last.result.actions # <<>>

\* C12 (as claimed): in every reachable progress state there are at most as
\* many diagnostic answers as diagnostic questions.
C12_AnswersWithinQuestions ==
    \A c \in Chats :
        store[c] # NoRec
        => Len(store[c].diagnostic_answers) <= Len(store[c].diagnostic_questions)

\* C13 (as claimed): in every step training_index keeps its value, grows, or
\* becomes 0 in a step that leaves training_cases empty.
C13_IndexResetsWithCases ==
    [][\A c \in Chats :
          (store[c] # NoRec /\ store'[c] # NoRec)
          => \/ store'[c].training_index >= store[c].training_index
             \/ /\ store'[c].training_index = 0
                /\ store'[c].training_cases = <<>>]_vars

\* C14: set_sphere_pending(id, True), from any progress state, leaves
\* training_case_pending false, training_index 0 and training_cases empty.
C14_SpherePendingResetsTraining ==
    [][\A t \in Tasks :
          (InStore(t, "set_sphere_pending") /\ task[t].op.flag /\ lock' = NoTask)
          => LET p == store'[task[t].chat]
             IN  /\ ~p.training_case_pending
                 /\ p.training_index = 0
                 /\ p.training_cases = <<>>]_vars

\* C14 witness: the previous event left a pending case at index 1 of a
\* non-empty list; set_sphere_pending(True) has just returned and all three
\* fields are reset.
C14_Witness ==
    \E t \in Tasks :
        /\ task[t].solo
        /\ task[t].op.name = "set_sphere_pending" /\ task[t].op.flag
        /\ task[t].pc \in {"L523", "L581"}
        /\ last.progress.training_case_pending
        /\ last.progress.training_index > 0
        /\ last.progress.training_cases # <<>>
        /\ ~store[task[t].chat].training_case_pending
        /\ store[task[t].chat].training_index = 0
        /\ store[task[t].chat].training_cases = <<>>

\* the flag f of chat c turns from false to true in this step
Raises(c, f) ==
    /\ store[c] # NoRec /\ store'[c] # NoRec
    /\ ~store[c][f] /\ store'[c][f]

SphereFields == {"sphere", "sphere_chosen", "sphere_pending"}
DiagnosticFields == {"diagnostic_answers", "diagnostic_done", "diagnostic_questions"}

\* C15 (as claimed): whenever sphere_pending becomes true the diagnostic
\* questions, the training cases and the training index are reset; when
\* skill_pending or training_case_pending becomes true no sphere field and no
\* diagnostic field changes.
C15_PendingCascade ==
    [][\A c \in Chats :
          /\ Raises(c, "sphere_pending")
             => /\ store'[c].diagnostic_questions = <<>>
                /\ store'[c].training_cases = <<>>
                /\ store'[c].training_index = 0
          /\ (Raises(c, "skill_pending") \/ Raises(c, "training_case_pending"))
             => \A f \in SphereFields \cup DiagnosticFields :
                    store'[c][f] = store[c][f]]_vars

\* C16 (as claimed): in every reachable progress state at most one of
\* sphere_pending, skill_pending and training_case_pending is true.
C16_OnePendingFlag ==
    \A c \in Chats :
        store[c] # NoRec
        => Cardinality({f \in {"sphere_pending", "skill_pending",
                               "training_case_pending"} : store[c][f]}) <= 1

\* C17: every call of increment_training adds exactly one to training_index
\* (so N calls in a row add N), returns the new index and leaves
\* training_case_pending true.
C17_IncrementMonotonic ==
    [][\A t \in Tasks :
          (InStore(t, "increment_training") /\ lock' = NoTask)
          => LET c == task[t].chat
                 k == SetDefault(c).training_index
             IN  /\ store'[c].training_index = k + 1
                 /\ task'[t].next_idx = k + 1
                 /\ store'[c].training_case_pending]_vars

\* C17 witness: the second of two calls in a row has just returned 2; the
\* first one had left the index at 1.
C17_Witness ==
    \E t \in Tasks :
        /\ task[t].solo
        /\ task[t].op.name = "increment_training"
        /\ task[t].pc = "L760"
        /\ last.solo /\ last.progress.training_index = 1
        /\ task[t].before.training_index = 1
        /\ task[t].next_idx = 2
        /\ store[task[t].chat].training_index = 2
        /\ store[task[t].chat].training_case_pending

NextCaseEvents == {CallbackEvent("case:next"), CallbackEvent("resume:yes")}

\* C18: an event case:next or resume:yes handled alone adds exactly one to
\* training_index, leaves training_case_pending true and answers with the
\* case at the new index when that index is inside training_cases, otherwise
\* with the exhausted prompt that offers the restart.
C18_NextCaseServed ==
    [][\A t \in Tasks :
          (Completes(t) /\ task[t].solo /\ task[t].ev \in NextCaseEvents)
          => LET p == last'.progress
                 i == task[t].before.training_index + 1
                 acts == last'.result.actions
             IN  /\ p.training_index = i
                 /\ p.training_case_pending
                 /\ Len(acts) = 1
                 /\ IF i < Len(p.training_cases)
                    THEN acts[1].text = "Case " \o ToString(i + 1) \o ": "
                                           \o p.training_cases[i + 1]
                    ELSE /\ acts[1].text = "Cases exhausted"
                         /\ acts[1].keyboard[1] = "training:restart"]_vars

\* C18 witness: both branches: the event before served the case at index 1,
\* this one went past the end of a two-case list and got the exhausted prompt.
C18_Witness ==
    /\ Quiet
    /\ last.solo
    /\ last.ev \in NextCaseEvents
    /\ last.progress.training_index = 2
    /\ Len(last.progress.training_cases) = 2
    /\ last.progress.training_case_pending
    /\ last.result.actions[1].text = "Cases exhausted"

\* the text event of task t answers a pending case: the progress it found is
\* in neither of the two input modes that come first (lines 787, 804, 835)
AnswersCase(t) ==
    /\ task[t].ev.type = "text"
    /\ task[t].solo
    /\ LET b == task[t].before
       IN  /\ ~(b.sphere_pending /\ ~b.sphere_chosen)
           /\ ~(b.skill_pending /\ ~b.skill_chosen)
           /\ b.training_case_pending

\* the response offers the next case: the verdict was good
OffersNext(result) == result.status = "ok" /\ AISaysNext(result.actions)

\* C19 (as claimed): when a text event answers a pending case, a good verdict
\* clears training_case_pending and keeps training_index; any other verdict
\* keeps training_case_pending true and keeps training_index and
\* training_cases, so that a retry meets the same case.
C19_VerdictAndPending ==
    [][\A t \in Tasks :
          (Completes(t) /\ AnswersCase(t) /\ last'.result.status = "ok")
          => LET b == task[t].before
                 p == last'.progress
             IN  IF OffersNext(last'.result)
                 THEN /\ ~p.training_case_pending
                      /\ p.training_index = b.training_index
                 ELSE /\ p.training_case_pending
                      /\ p.training_index = b.training_index
                      /\ p.training_cases = b.training_cases]_vars

EnsureCasesReturns == {"L650", "L761", "L780", "L812", "L838"}

\* ensure_training_cases returns to task t in this step, at once or after
\* the awaited generate_cases
EnsureCasesReturn(t) ==
    /\ task[t].pc \notin EnsureCasesReturns
    /\ task'[t].pc \in EnsureCasesReturns

\* C21: when the record holds no cases and the generator is not enabled, or
\* it raised or gave no case, training_cases becomes the static catalog of
\* the skill and that catalog is what ensure_training_cases returns.
C21_CasesFallback ==
    [][\A t \in Tasks :
          EnsureCasesReturn(t)
          => LET c == task[t].chat
                 called == task[t].pc = "ai_cases"
                 skill == IF called THEN task[t].skill ELSE store[c].skill
                 nothing == IF called THEN task'[t].got = <<>>
                            ELSE ~aiEnabled /\ store[c].training_cases = <<>>
             IN  nothing
                 => /\ store'[c].training_cases = StaticCases(skill)
                    /\ task'[t].cases = StaticCases(skill)]_vars

\* C21 witness: the generator was called, gave nothing, and the static
\* catalog of the skill is in the record and in the hands of the caller.
C21_Witness ==
    \E t \in Tasks :
        /\ aiEnabled
        /\ task[t].solo
        /\ task[t].pc \in EnsureCasesReturns
        /\ task[t].skill # ""
        /\ task[t].got = <<>>
        /\ task[t].cases = StaticCases(task[t].skill)
        /\ store[task[t].chat].training_cases = StaticCases(task[t].skill)

\* C22 (as claimed): when the generator is enabled but raises or gives no
\* valid question, diagnostic_questions becomes the static catalog, so the
\* record never leaves ensure_diagnostic_questions empty and a
\* diagnostic:start with the sphere chosen is answered with question 1.
C22_QuestionsFallback ==
    [][\A t \in Tasks :
          /\ (task[t].pc = "ai_diag" /\ task'[t].pc # "ai_diag")
             => /\ store'[task[t].chat].diagnostic_questions # <<>>
                /\ task'[t].questions
                       = store'[task[t].chat].diagnostic_questions
          /\ (/\ Completes(t)
              /\ task[t].solo
              /\ task[t].ev = ActionEvent("diagnostic:start")
              /\ task[t].before.sphere_chosen)
             => LET qs == last'.progress.diagnostic_questions
                IN  /\ qs # <<>>
                    /\ last'.result.actions
                           = << diagnostic_question_payload(
                                    0, Len(qs), task[t].chat, qs[1]) >>]_vars

\* task t calls one of the two functions in this step
EnsureCalled(t, action) ==
    /\ task[t].pc = "idle"
    /\ task'[t].pc # "idle"
    /\ task'[t].ev = ActionEvent(action)

\* C23: ensure_training_cases called on a record with cases, and
\* ensure_diagnostic_questions called on a record with questions, return
\* that content, make no generator call and change no field of the record;
\* so a second call in a row gives what the first gave.
C23_EnsureIdempotent ==
    [][\A t \in Tasks :
          /\ (EnsureCalled(t, "training:start")
               /\ store[1].training_cases # <<>>)
             => /\ task'[t].pc = "L650"
                /\ task'[t].cases = store[1].training_cases
                /\ store' = store
          /\ (EnsureCalled(t, "diagnostic:start")
               /\ store[1].diagnostic_questions # <<>>)
             => /\ task'[t].pc = "L594"
                /\ task'[t].questions = store[1].diagnostic_questions
                /\ store' = store]_vars

\* C23 witness: the second call in a row of ensure_diagnostic_questions, with
\* the generator enabled: the first call fetched the question, the second
\* returned it and left the record as it was.
C23_Witness ==
    \E t \in Tasks :
        /\ aiEnabled
        /\ nEvents = 2
        /\ last.ev = ActionEvent("diagnostic:start")
        /\ last.progress.diagnostic_questions # <<>>
        /\ last.progress.diagnostic_questions # DIAGNOSTIC_QUESTIONS
        /\ task[t].ev = ActionEvent("diagnostic:start")
        /\ task[t].pc = "L594"
        /\ task[t].questions = last.progress.diagnostic_questions
        /\ store[1] = last.progress

\* a text event handled alone that found the skill awaited and the sphere not
SkillInput(t) ==
    /\ Completes(t)
    /\ task[t].solo
    /\ task[t].ev.type = "text"
    /\ task[t].before.skill_pending
    /\ ~task[t].before.skill_chosen
    /\ ~(task[t].before.sphere_pending /\ ~task[t].before.sphere_chosen)

\* what skill input leaves behind, the skill being `name`
SkillInputDone(t, name) ==
    LET p == last'.progress
    IN  /\ p.skill = name
        /\ p.skill_chosen
        /\ ~p.skill_pending
        /\ p.training_index = 0
        /\ p.training_cases = CasesOrStatic(task[t].got, name)
        /\ p.training_cases # <<>>
        /\ p.training_case_pending
        /\ last'.result.status = "ok"
        /\ \E i \in 1..Len(last'.result.actions) :
              last'.result.actions[i] =
                  training_case_payload(name, 0, task[t].chat, p.training_cases)

\* C24 as stated: a text event arriving while the skill is awaited sets
\* skill to the text of the event, skill_chosen, clears skill_pending, resets
\* training_index, fetches the cases of the new skill, sets
\* training_case_pending and answers with the case at index 0.
C24_SkillIsTheText ==
    [][\A t \in Tasks : SkillInput(t) => SkillInputDone(t, task[t].ev.text)]_vars

\* C24 amended: the same, the skill being the text without its surrounding
\* whitespace, or the default skill name when nothing is left of the text.
C24_SkillInput ==
    [][\A t \in Tasks :
          SkillInput(t)
              => SkillInputDone(t, OrElse(Strip(task[t].ev.text), DefaultSkillText))]_vars

\* C24 witness: the text "qa" was answered, alone, with the preparing message
\* and the first generated case of skill "qa".
C24_Witness ==
    /\ Quiet
    /\ aiEnabled
    /\ last.solo
    /\ last.ev = TextEvent("qa")
    /\ last.progress.skill = "qa"
    /\ last.progress.skill_chosen
    /\ ~last.progress.skill_pending
    /\ last.progress.training_case_pending
    /\ last.progress.training_cases # <<>>
    /\ last.progress.training_cases # StaticCases("qa")
    /\ last.result.actions =
          << PreparingMessage(1),
             training_case_payload("qa", 0, 1, last.progress.training_cases) >>

StartEvents == {ActionEvent("diagnostic:start"), ActionEvent("training:start")}

\* C25: diagnostic:start or training:start arriving while sphere_chosen is
\* false sets sphere_pending and is answered with the sphere prompt alone:
\* no diagnostic question, no training case.
C25_DeferredStart ==
    [][\A t \in Tasks :
          (Completes(t) /\ task[t].ev \in StartEvents
                        /\ ~task[t].before.sphere_chosen)
              => /\ last'.progress.sphere_pending
                 /\ from_dict(db'[task[t].chat]).sphere_pending
                 /\ last'.result =
                       [status |-> "ok",
                        actions |-> << SpherePrompt(task[t].chat) >>]]_vars

\* C25 witness: training:start on a conversation without sphere was answered
\* with the sphere prompt and left the sphere awaited.
C25_Witness ==
    /\ Quiet
    /\ last.ev = ActionEvent("training:start")
    /\ last.result.actions = << SpherePrompt(1) >>
    /\ last.progress.sphere_pending
    /\ ~last.progress.sphere_chosen
    /\ store[1].sphere_pending

\* C26: a text event arriving while the sphere is awaited sets the sphere,
\* sphere_chosen, clears sphere_pending and is answered with the 'what next'
\* prompt alone; diagnostic_done, training_index and training_case_pending
\* stay as the event found them.
C26_NoAutomaticResume ==
    [][\A t \in Tasks :
          (Completes(t) /\ task[t].ev.type = "text"
                        /\ task[t].before.sphere_pending
                        /\ ~task[t].before.sphere_chosen)
              => LET p == last'.progress
                     b == task[t].before
                 IN  /\ p.sphere = OrElse(task[t].ev.text, DefaultSphere)
                     /\ p.sphere_chosen
                     /\ ~p.sphere_pending
                     /\ p.diagnostic_done = b.diagnostic_done
                     /\ p.training_index = b.training_index
                     /\ p.training_case_pending = b.training_case_pending
                     /\ last'.result =
                           [status |-> "ok",
                            actions |-> << SphereSetMessage(task[t].chat,
                                                            task[t].ev.text) >>]]_vars

\* C26 witness: the text "qa" was taken as the sphere and answered with the
\* 'what next' prompt; no training is pending.
C26_Witness ==
    /\ Quiet
    /\ last.ev = TextEvent("qa")
    /\ last.result.actions = << SphereSetMessage(1, "qa") >>
    /\ last.progress.sphere = "qa"
    /\ last.progress.sphere_chosen
    /\ ~last.progress.sphere_pending
    /\ ~last.progress.training_case_pending
    /\ ~last.progress.diagnostic_done

\* the names the action branch tests for (lines 505-713)
RecognisedAction(a) ==
    \/ a \in {"start", "menu:start", "action:start", "sphere:custom",
              "diagnostic:start", "training:start", "menu:progress",
              "menu:reminders", "skill:feedback", "skill:idp", "menu:toc"}
    \/ StartsWith(a, "sphere:")

\* the data the callback branch tests for (lines 717-782)
RecognisedCallback(d) ==
    \/ d = "resume:yes"
    \/ \E prefix \in {"diag:", "case:next", "training:restart", "remind:later",
                      "case:retry"} : StartsWith(d, prefix)

\* the generic acknowledgment of each kind of unexpected event
GenericAck(e, chat) ==
    IF e.type = "action" THEN CommandAck(chat)
    ELSE IF e.type = "callback" THEN SignalAck(chat)
    ELSE EventAck(chat)

Unexpected(e) ==
    \/ e.type \notin {"action", "callback", "text"}
    \/ e.type = "action" /\ ~RecognisedAction(e.action)
    \/ e.type = "callback" /\ ~RecognisedCallback(e.data)

\* C27: an event of another type than action/callback/text, an action with
\* an unrecognised name and a callback with unrecognised data are answered
\* with exactly one generic acknowledgment message, and no field of the
\* conversation progress changes, in memory or in the database.
C27_UnexpectedAcknowledged ==
    [][\A t \in Tasks :
          (Completes(t) /\ Unexpected(task[t].ev))
              => /\ last'.result =
                       [status |-> "ok",
                        actions |-> << GenericAck(task[t].ev, task[t].chat) >>]
                 /\ last'.progress = task[t].before
                 /\ store'[task[t].chat] = task[t].before
                 /\ db' = db]_vars

\* C27 witness: an event of type "photo" on a conversation in training was
\* acknowledged and the progress is what the database holds.
C27_Witness ==
    /\ Quiet
    /\ last.ev.type = "photo"
    /\ last.result.actions = << EventAck(1) >>
    /\ last.progress.skill_chosen
    /\ store[1] = last.progress
    /\ store[1] = Durable(1)

RemindLater == CallbackEvent("remind:later")

\* the reminder tasks that have started to sleep, pushed or ended
ReminderProgress(r) == <<r.sleeping, r.skipped, r.pushed, r.failed>>

\* C28: the acknowledgment of remind:later is returned while the reminder
\* task it created has neither slept nor pushed, and handling the callback
\* changes no field of the conversation progress.
C28_RemindLaterDoesNotBlock ==
    [][\A t \in Tasks :
          (Completes(t) /\ task[t].ev = RemindLater)
              => /\ last'.result =
                       [status |-> "ok",
                        actions |-> << ReminderAck(task[t].chat) >>]
                 /\ reminders'.created = reminders.created + 1
                 /\ ReminderProgress(reminders') = ReminderProgress(reminders)
                 /\ last'.progress = task[t].before
                 /\ store' = store
                 /\ db' = db]_vars

\* C28 witness: remind:later has been acknowledged and its reminder task is
\* still asleep.
C28_Witness ==
    /\ Quiet
    /\ last.ev = RemindLater
    /\ last.result.actions = << ReminderAck(1) >>
    /\ push_url = "set"
    /\ reminders = [NoReminders EXCEPT !.sleeping = 1]

ReminderCount(r) == r.created + r.sleeping + r.skipped + r.pushed + r.failed
PushAttempts(r) == r.pushed + r.failed

\* the process is started again: the cache and the event loop are new
ProcessRestarts ==
    /\ Quiet
    /\ \E c \in Chats : store[c] # NoRec
    /\ \A c \in Chats : store'[c] = NoRec
    /\ last' = NoLast

\* C29: in one process life every handled remind:later adds exactly one
\* reminder task and nothing else adds or removes one; a task makes its one
\* push attempt when it leaves its sleep, and none without a push URL; a task
\* that has pushed, failed or been skipped stays so (no retry), and a
\* sleeping task leaves its sleep only by its own attempt (no cancellation),
\* so k requests make k attempts.
C29_OneAttemptPerRequest ==
    /\ [](/\ push_url = "unset" => (reminders.sleeping = 0 /\ PushAttempts(reminders) = 0)
          /\ push_url = "set" => reminders.skipped = 0)
    /\ [][~ProcessRestarts =>
            /\ ReminderCount(reminders') = ReminderCount(reminders) +
                  (IF \E t \in Tasks : Completes(t) /\ task[t].ev = RemindLater
                   THEN 1 ELSE 0)
            /\ reminders'.pushed >= reminders.pushed
            /\ reminders'.failed >= reminders.failed
            /\ reminders'.skipped >= reminders.skipped
            /\ PushAttempts(reminders') <= PushAttempts(reminders) + 1
            /\ (PushAttempts(reminders') = PushAttempts(reminders) + 1)
                  <=> (reminders'.sleeping = reminders.sleeping - 1)
            /\ reminders'.sleeping <= reminders.sleeping + 1
            /\ (reminders'.created < reminders.created)
                  => /\ reminders'.created = reminders.created - 1
                     /\ \/ reminders'.sleeping = reminders.sleeping + 1
                        \/ reminders'.skipped = reminders.skipped + 1]_vars

\* C29 witness: two remind:later requests, two push attempts, one of which
\* failed, and no task left.
C29_Witness ==
    /\ Quiet
    /\ nEvents = 2
    /\ last.ev = RemindLater
    /\ push_url = "set"
    /\ reminders = [NoReminders EXCEPT !.pushed = 1, !.failed = 1]

\* task t leaves a setter in this step
LeavesSetter(t) ==
    /\ task[t].pc = "locked"
    /\ lock = t
    /\ task[t].op.name # "get"
    /\ task'[t].pc # "locked"

\* what each setter assigns (state.py 73-130), old being the record before
SetterApplied(op, old, new) ==
    CASE op.name = "reset_diagnostic" ->
            /\ new.diagnostic_answers = <<>>
            /\ ~new.diagnostic_done
            /\ new.diagnostic_questions = <<>>
      [] op.name = "increment_training" ->
            /\ new.training_index = old.training_index + 1
            /\ new.training_case_pending
      [] op.name = "set_skill" ->
            /\ new.skill = op.str
            /\ new.skill_chosen
            /\ ~new.skill_pending
            /\ new.training_cases = <<>>
            /\ new.training_index = 0
            /\ ~new.training_case_pending
      [] op.name = "set_skill_pending" -> new.skill_pending = op.flag
      [] op.name = "set_sphere" ->
            /\ new.sphere = op.str
            /\ new.sphere_chosen
            /\ ~new.sphere_pending
            /\ new.diagnostic_questions = <<>>
      [] op.name = "set_sphere_pending" ->
            /\ new.sphere_pending = op.flag
            /\ op.flag => /\ ~new.sphere_chosen
                          /\ ~new.training_case_pending
                          /\ new.training_index = 0
                          /\ new.training_cases = <<>>
      [] op.name = "set_training_pending" -> new.training_case_pending = op.flag
      [] OTHER -> FALSE

LeavesGet(t) ==
    /\ task[t].pc = "locked"
    /\ lock = t
    /\ task[t].op.name = "get"
    /\ task'[t].pc # "locked"

\* C31: a get for a conversation the cache holds returns the cached record
\* and changes neither cache nor database, so a second get in a row returns
\* what the first returned; the first get for a conversation caches the
\* durable record when there is one and the default record otherwise.
C31_GetIdempotent ==
    [][\A t \in Tasks :
          LeavesGet(t)
              => LET c == task[t].chat
                 IN  /\ db' = db
                     /\ store[c] # NoRec => store' = store
                     /\ (store[c] = NoRec /\ db[c] # NoRec)
                           => store'[c] = from_dict(db[c])
                     /\ (store[c] = NoRec /\ db[c] = NoRec)
                           => store'[c] = DefaultProgress
                     /\ \A d \in Chats \ {c} : store'[d] = store[d]
                     /\ task'[t].cont = "L500" => task'[t].before = store'[c]]_vars

\* C31 witness: the get of a second event has returned, with nothing but
\* the get of the first event (an unrecognised callback) before it: the
\* record it returned is the one the first get restored from the database.
C31_Witness ==
    \E t \in Tasks :
        /\ At(t, "L500")
        /\ nEvents = 2
        /\ last.ev = CallbackEvent("noop")
        /\ db[1] # NoRec
        /\ store[1] = from_dict(db[1])
        /\ last.progress = store[1]
        /\ task[t].before = store[1]

\* the configured keywords that occur in the lower-cased answer
KeywordsFound(toks) ==
    {k \in 1..Len(ai_positive_keywords) :
        \E i \in 1..Len(toks) :
            TokenContains(LowerToken(toks[i]), ai_positive_keywords[k])}

\* the places where a word of the answer begins
WordStarts(toks) ==
    {i \in 1..Len(toks) : toks[i] # Blank /\ (i = 1 \/ toks[i - 1] = Blank)}

\* C32: evaluate_answer returns good exactly when the number of configured
\* keywords occurring in the lower-cased answer, plus one when the answer
\* has more than 12 whitespace-separated words, is at least 2.
C32_HeuristicVerdict ==
    ret # NoValue
        => (ret.good <=>
              Cardinality(KeywordsFound(arg))
              + (IF Cardinality(WordStarts(arg)) > 12 THEN 1 ELSE 0) >= 2)

\* C32 witness: an answer of 13 words with one keyword, written with a
\* capital, was judged good.
C32_Witness ==
    /\ ret # NoValue
    /\ ret.good
    /\ Cardinality(WordStarts(arg)) = 13
    /\ Cardinality(KeywordsFound(arg)) = 1
    /\ arg[Len(arg)] = "Concrete"

\* C33: training_case_payload returns, for an index at or past the end of
\* the list (an empty list included), the 'cases exhausted' message with the
\* restart, skill and menu controls, and for an index inside the list the
\* message of the case at that index.
C33_PayloadInRange ==
    ret # NoValue
        => /\ ret.type = "send_message"
           /\ ret.chat_id = 1
           /\ arg.idx >= Len(arg.cases)
                 => /\ ret.text = "Cases exhausted"
                    /\ \A d \in {"training:restart", "action:skill:feedback",
                                  "action:start"} :
                          \E i \in 1..Len(ret.keyboard) : ret.keyboard[i] = d
           /\ arg.idx < Len(arg.cases)
                 => ret.text = "Case " \o ToString(arg.idx + 1) \o ": "
                                 \o arg.cases[arg.idx + 1]

\* C33 witness: index 5 with five cases gave the 'cases exhausted' message.
C33_Witness ==
    /\ ret # NoValue
    /\ arg.idx = 5
    /\ Len(arg.cases) = 5
    /\ ret.text = "Cases exhausted"

\* C34: the action 'start' on a conversation without prior progress is
\* answered with exactly one send_message action whose keyboard has a
\* control with data 'action:diagnostic:start'.
C34_StartShowsMenu ==
    [][\A t \in Tasks :
          (Completes(t) /\ task[t].ev = ActionEvent("start")
                        /\ db[task[t].chat] = NoRec
                        /\ task[t].before = DefaultProgress)
              => LET acts == last'.result.actions
                 IN  /\ last'.result.status = "ok"
                     /\ Len(acts) = 1
                     /\ acts[1].type = "send_message"
                     /\ \E i \in 1..Len(acts[1].keyboard) :
                           acts[1].keyboard[i] = "action:diagnostic:start"]_vars

\* C34 witness: 'start' was the first event of a conversation with no row
\* in the database, and the menu was returned.
C34_Witness ==
    /\ Quiet
    /\ nEvents = 1
    /\ db[1] = NoRec
    /\ last.ev = ActionEvent("start")
    /\ last.progress = DefaultProgress
    /\ last.result.actions = << MenuMessage(1) >>

\* ------------------------------------------------------------------------
\* training:start on an unfinished case
\* ------------------------------------------------------------------------
\* task t is about to dispatch training:start for a conversation with sphere
\* and skill chosen, a case awaited and a non-empty case list, and moves
UnfinishedCaseStart(t) ==
    /\ At(t, "L500")
    /\ task[t].ev = ActionEvent("training:start")
    /\ LET p == store[task[t].chat]
       IN  /\ p.sphere_chosen /\ p.skill_chosen
           /\ p.training_case_pending /\ p.training_cases # <<>>
    /\ task'[t] # task[t]

Effective(c) == IF store[c] # NoRec THEN store[c] ELSE Durable(c)

\* the same record after the step
EffectiveNext(c) ==
    IF store'[c] # NoRec THEN store'[c]
    ELSE IF db'[c] = NoRec THEN DefaultProgress ELSE from_dict(db'[c])

\* C36: once skill_chosen is true for a conversation no step changes skill or
\* sets skill_chosen back to false, neither in the cache nor in the record a
\* later process life loads; skill:feedback or skill:idp followed by a text
\* event leaves the skill as it was.
C36_SkillFixed ==
    [][\A c \in Chats :
          Effective(c).skill_chosen
              => /\ EffectiveNext(c).skill_chosen
                 /\ EffectiveNext(c).skill = Effective(c).skill]_vars

\* C36 witness: on a stored training with skill "qa" a skill button was
\* pressed (skill_pending is set) and the text that followed was handled: the
\* skill is still "qa".
C36_Witness ==
    /\ Quiet
    /\ nEvents = 2
    /\ last.ev.type = "text"
    /\ last.progress.skill_pending
    /\ last.progress.skill_chosen
    /\ last.progress.skill = "qa"
    /\ store[1].skill = "qa"

\* task t leaves the setter `name` of conversation c in this step
SetterRuns(t, c, name) ==
    /\ LeavesSetter(t)
    /\ task[t].chat = c
    /\ task[t].op.name = name

\* C37: sphere_pending, once true, is true after every step that is not the
\* return of set_sphere for that conversation, and skill_pending likewise
\* with set_skill, the 'start' action of the Cancel button and a restart of
\* the process included; while sphere_pending is true sphere_chosen is false,
\* so a text event that finds the flag set is consumed as the sphere.
C37_PendingUntilSet ==
    [][/\ \A c \in Chats :
            /\ (Effective(c).sphere_pending /\ ~EffectiveNext(c).sphere_pending)
                   => \E t \in Tasks : SetterRuns(t, c, "set_sphere")
            /\ (Effective(c).skill_pending /\ ~EffectiveNext(c).skill_pending)
                   => \E t \in Tasks : SetterRuns(t, c, "set_skill")
            /\ Effective(c).sphere_pending => ~Effective(c).sphere_chosen
       /\ \A t \in Tasks :
            (/\ At(t, "L500") /\ task[t].ev.type = "text"
             /\ store[task[t].chat].sphere_pending
             /\ task'[t] # task[t])
                => /\ task'[t].op.name = "set_sphere"
                   /\ task'[t].op.str = OrElse(task[t].ev.text, DefaultSphere)]_vars

\* C37 witness: the sphere prompt was followed by Cancel ('start'), and the
\* conversation still awaits its sphere, in the cache and in the database.
C37_Witness ==
    /\ Quiet
    /\ nEvents = 2
    /\ last.ev = ActionEvent("start")
    /\ last.result.actions = << MenuMessage(1) >>
    /\ store[1] # NoRec
    /\ store[1].sphere_pending
    /\ ~store[1].sphere_chosen
    /\ Durable(1).sphere_pending

\* ------------------------------------------------------------------------
\* Properties of the in-flight gate (checked under SpecGate)
\* ------------------------------------------------------------------------
\* the positions of a text or voice handler between its successful
\* try_set_pending and its clear_pending
GatedPcs == {"loading", "download", "transcribe", "asr_error", "backend", "answer"}

Gated(h) == handler[h].pc \in GatedPcs

GatedFor(c) == {h \in Handlers : Gated(h) /\ handler[h].chat = c}

\* C38: a chat is in pending_chats exactly while one text or voice handler of
\* it is between its successful try_set_pending and its clear_pending, so at
\* most one text or voice request per chat is with the backend; a text, voice
\* or callback update that finds the chat marked returns without reaching
\* the backend and without touching the mark; a handler that leaves the
\* gated part, by whatever path, removes the mark of its chat.
C38_InFlightGate ==
    /\ [](\A c \in GateChats :
             /\ c \in pending_chats <=> GatedFor(c) # {}
             /\ Cardinality(GatedFor(c)) <= 1
             /\ Cardinality({h \in GatedFor(c) : handler[h].pc = "backend"}) <= 1)
    /\ [][\A h \in Handlers :
            /\ (handler[h].pc = "entered" /\ handler[h].chat \in pending_chats
                                          /\ handler'[h] # handler[h])
                   => /\ handler'[h].pc \in {"rejected", "idle"}
                      /\ handler'[h].pc = "idle"
                             => handler'[h].how \in {"dropped", "skipped"}
                      /\ pending_chats' = pending_chats
            /\ (handler[h].pc = "rejected" /\ handler'[h] # handler[h])
                   => handler'[h].pc = "idle" /\ pending_chats' = pending_chats
            /\ (Gated(h) /\ handler'[h].pc = "idle")
                   => handler[h].chat \notin pending_chats']_vars

\* C38 witness: while a text of chat 1 is with the backend, a callback of the
\* same chat has been dropped.
C38_Witness ==
    /\ handler[1].pc = "backend" /\ handler[1].kind = "text" /\ handler[1].chat = 1
    /\ handler[2].pc = "idle" /\ handler[2].how = "dropped"
    /\ pending_chats = {1}

\* ------------------------------------------------------------------------
\* Properties of UpdateDeduplicator (checked under SpecWebhook)
\* ------------------------------------------------------------------------
SeqRange(q) == {q[i] : i \in 1..Len(q)}

\* the up to max_size ids recorded last
RecentIds ==
    {dispatched[i] : i \in {j \in 1..Len(dispatched) : j > Len(dispatched) - max_size}}

\* C39: _seen is the set of the ids in _queue, which are distinct and at most
\* max_size; is_duplicate(u) answers true exactly when u is one of the up to
\* max_size ids recorded last; a call that answers true changes neither
\* collection and its update is not dispatched, a call that answers false
\* records u and dispatches it.
C39_DedupWindow ==
    /\ [](/\ seen = SeqRange(queue)
          /\ Cardinality(seen) = Len(queue)
          /\ Len(queue) <= max_size
          /\ seen = RecentIds)
    /\ [][/\ ret' = (arg' \in RecentIds)
          /\ ret' => (seen' = seen /\ queue' = queue /\ dispatched' = dispatched)
          /\ ~ret' => /\ dispatched' = Append(dispatched, arg')
                      /\ arg' \in seen'
                      /\ queue'[Len(queue')] = arg']_vars

\* C39 witness: id 1 was recorded, pushed out by 2 and 3, and then accepted
\* and dispatched again.
C39_Witness ==
    /\ dispatched = <<1, 2, 3, 1>>
    /\ arg = 1
    /\ ret = FALSE
    /\ seen = {3, 1}
    /\ queue = <<3, 1>>

\* ------------------------------------------------------------------------
\* Properties of chunk_text (checked under SpecChunk)
\* ------------------------------------------------------------------------
\* C40 (as claimed): for every text and every limit of at least 1 no chunk of
\* chunk_text is longer than the limit and none is empty, texts with empty
\* paragraphs included.
C40_ChunksWithinLimit ==
    ret # NoValue
        => \A i \in 1..Len(ret.chunks) :
              /\ Len(ret.chunks[i]) <= arg.limit
              /\ ret.chunks[i] # <<>>

====
